---- MODULE Spec2Model ----
(***************************************************************************)
(* WorkshopForge: the plan / apply / check / explain pipeline of           *)
(* forge.orchestrator.AIOrchestrator, with the prelude (context digest)    *)
(* generator, the policy engine and the audit log it composes.             *)
(*                                                                         *)
(* Text is modelled as TLA+ strings built with \o, so a rendered prelude   *)
(* is the actual sequence of lines the code joins with "\n".  Texts the    *)
(* code inspects character by character (goals, project.md,                *)
(* ai_guidelines.md, module ids) are sequences of one-character strings,   *)
(* and a path the code takes apart is the sequence of its parts.           *)
(***************************************************************************)
EXTENDS Integers, Sequences, FiniteSets, TLC

VARIABLES
  spec_files,     \* the specification as the files of spec/ hold it
  target,         \* the directory <spec parent>/out/instructor
  loader_specs,   \* SpecLoader._specs: <<>> or <<the loaded specs>>
  provider,       \* the live orchestrator's provider name
  prelude_text,   \* PreludeGenerator._prelude_text
  prelude_hash,   \* PreludeGenerator._prelude_hash, <<>> while ""
  state_file,     \* .workshopforge/state.json: <<>> or <<the record>>
  ai_logs,        \* ai_logs/: log directory name -> its files
  files,          \* ChangeSet paths written: path -> content
  reports,        \* reports/: <<>> or <<the violations last rendered>>
  clock,          \* the wall clock timestamp() reads
  nops,           \* number of operations called so far
  limit,          \* number of operations the exploration allows
  last,           \* what the last operation did and returned
  recov,          \* progress of a recovery from a stability error
  digests,        \* every (specs, text, hash) a generate/get_hash produced
  dirs,           \* the directories AIOrchestrator.__init__ ensures
  rules           \* PolicyEngine.rules: the registered rules, in order

vars == <<spec_files, target, loader_specs, provider, prelude_text,
          prelude_hash, state_file, ai_logs, files, reports, clock, nops,
          limit, last, recov, digests, dirs, rules>>

(***************************************************************************)
(* Bounds of the exploration.                                              *)
(***************************************************************************)
MaxOps == 2
MaxClock == 1
\* operations of a run that fills the audit log
AuditOps == 3
\* operations of a run that fails on an edited specification and retries
RecoveryOps == 4
\* operations of a run over an unchanged specification
UnchangedOps == 3

None == "None"

Min(a, b) == IF a < b THEN a ELSE b

(***************************************************************************)
(* Character-level helpers.                                                *)
(***************************************************************************)
RECURSIVE Concat(_)
Concat(cs) == IF cs = <<>> THEN "" ELSE Head(cs) \o Concat(Tail(cs))

Whitespace == {" ", "\n", "\t"}

RECURSIVE LStrip(_, _)
LStrip(cs, drop) ==
  IF cs # <<>> /\ Head(cs) \in drop THEN LStrip(Tail(cs), drop) ELSE cs

RECURSIVE RStrip(_, _)
RStrip(cs, drop) ==
  IF cs # <<>> /\ cs[Len(cs)] \in drop
  THEN RStrip(SubSeq(cs, 1, Len(cs) - 1), drop) ELSE cs

\* str.strip(): leading and trailing whitespace removed
Strip(cs) == RStrip(LStrip(cs, Whitespace), Whitespace)

\* "\n".join(lines)
RECURSIVE JoinLines(_)
JoinLines(ls) ==
  IF ls = <<>> THEN ""
  ELSE IF Len(ls) = 1 THEN ls[1]
  ELSE ls[1] \o "\n" \o JoinLines(Tail(ls))

\* ", ".join(items)
RECURSIVE JoinComma(_)
JoinComma(ls) ==
  IF ls = <<>> THEN ""
  ELSE IF Len(ls) = 1 THEN ls[1]
  ELSE ls[1] \o ", " \o JoinComma(Tail(ls))

\* f"{v}" of a Python value: a str is inserted as it is, an int in decimal,
\* a bool as True or False
FmtInt(v) == ToString(v)
FmtBool(v) == IF v THEN "True" ELSE "False"

\* str(path) of a path kept as its parts
RECURSIVE PathStr(_)
PathStr(parts) ==
  IF parts = <<>> THEN "."
  ELSE IF Len(parts) = 1 THEN parts[1]
  ELSE parts[1] \o "/" \o PathStr(Tail(parts))

\* dict.get(key, default)
Get(d, key, default) == IF key \in DOMAIN d THEN d[key] ELSE default

(***************************************************************************)
(* Specifications (the content of spec/ as SpecLoader.load returns it).    *)
(***************************************************************************)
BaseWorkshop ==
  [id |-> "ws", title |-> "Intro", version |-> "1.0", audience |-> "devs",
   duration |-> [groups |-> 2, sessions_per_group |-> 3, session_minutes |-> 90],
   policy |-> [student_ai_usage |-> "allowed", license |-> "MIT"]]

BaseModule ==
  [id |-> <<"s","e","t","u","p">>, title |-> "Setup", objective |-> "Set up env",
   duration_minutes |-> 30,
   deliverables |-> << <<"labs", "setup", "README.md">> >>]

BaseSpec ==
  [workshop |-> BaseWorkshop,
   modules |-> [modules |-> <<BaseModule>>],
   profile |-> [domain |-> "general"],
   project |-> <<>>,
   ai_guidelines |-> <<>>]

\* the module's objective emptied: module-completeness reports an error
SpecNoObjective == [BaseSpec EXCEPT !.modules.modules[1].objective = ""]

Specs == {BaseSpec, SpecNoObjective}

\* modules.yml without the modules key (an empty mapping)
SpecNoModuleList == [BaseSpec EXCEPT !.modules = <<>>]

\* the record r without its field k
Without(r, k) == [f \in DOMAIN r \ {k} |-> r[f]]

\* the record r with the field k set to v, added if r has none
With(r, k, v) == [f \in DOMAIN r \cup {k} |-> IF f = k THEN v ELSE r[f]]

\* modules.yml entries that differ from BaseModule in one field: the id,
\* the title (another, absent, or spelled as the id), the objective, the
\* duration, the deliverables (absent, empty, one more), depends_on (empty,
\* two ids, one entry that reads as two)
ModuleVariants ==
  { BaseModule,
    [BaseModule EXCEPT !.id = <<"i","n","t","r","o">>],
    [BaseModule EXCEPT !.title = "Start"],
    [BaseModule EXCEPT !.title = "setup"],
    Without(BaseModule, "title"),
    [BaseModule EXCEPT !.objective = "Install tools"],
    [BaseModule EXCEPT !.duration_minutes = 31],
    Without(BaseModule, "deliverables"),
    [BaseModule EXCEPT !.deliverables = <<>>],
    [BaseModule EXCEPT !.deliverables =
       << <<"labs", "setup", "README.md">>, <<"labs", "setup", "verify.sh">> >>],
    With(BaseModule, "depends_on", <<>>),
    With(BaseModule, "depends_on", <<"a", "b">>),
    With(BaseModule, "depends_on", <<"a, b">>) }

ModuleSpecs == {[BaseSpec EXCEPT !.modules.modules = <<m>>] : m \in ModuleVariants}

\* the fields of a modules.yml entry the Module descriptor is made of
ModuleFields ==
  {"id", "title", "objective", "duration_minutes", "deliverables", "depends_on"}

\* what a record holds for a field: <<>> if absent, <<value>> if present
Field(r, k) == IF k \in DOMAIN r THEN <<r[k]>> ELSE <<>>

\* two specifications with one module each, alike but for exactly one field
\* of that module
OneModuleFieldApart(s1, s2) ==
  /\ [s1 EXCEPT !.modules = {}] = [s2 EXCEPT !.modules = {}]
  /\ Len(s1.modules.modules) = 1 /\ Len(s2.modules.modules) = 1
  /\ Cardinality({k \in ModuleFields :
                    Field(s1.modules.modules[1], k) # Field(s2.modules.modules[1], k)}) = 1

\* specifications with a required part missing: workshop.yml, modules.yml,
\* the workshop title, the workshop policy, a module's objective, a module's
\* duration, the module list
DefectiveSpecs ==
  { Without(BaseSpec, "workshop"),
    Without(BaseSpec, "modules"),
    [BaseSpec EXCEPT !.workshop = Without(@, "title")],
    [BaseSpec EXCEPT !.workshop = Without(@, "policy")],
    [BaseSpec EXCEPT !.modules.modules[1] = Without(@, "objective")],
    [BaseSpec EXCEPT !.modules.modules[1] = Without(@, "duration_minutes")],
    SpecNoModuleList }

\* specifications that differ from BaseSpec in one field outside the
\* modules: workshop.yml (version, session length, outputs, branding),
\* profile.yml (domain, materials, student_pack, ci), project.md,
\* ai_guidelines.md
FieldSpecs ==
  { BaseSpec,
    [BaseSpec EXCEPT !.workshop.version = "1.1"],
    [BaseSpec EXCEPT !.workshop.duration.session_minutes = 91],
    [BaseSpec EXCEPT !.workshop = With(@, "outputs", [slides |-> FALSE, handouts |-> TRUE])],
    [BaseSpec EXCEPT !.workshop = With(@, "branding", [org |-> "Org", theme |-> "default"])],
    [BaseSpec EXCEPT !.profile.domain = "software development"],
    [BaseSpec EXCEPT !.profile = With(@, "materials", [slides_format |-> "pdf"])],
    [BaseSpec EXCEPT !.profile =
       With(@, "student_pack", [redactions |-> <<"instructor/**">>])],
    [BaseSpec EXCEPT !.profile = With(@, "ci", [enable_basic_checks |-> TRUE])],
    [BaseSpec EXCEPT !.profile = With(@, "ci", [enable_basic_checks |-> FALSE])],
    [BaseSpec EXCEPT !.project = <<"P">>],
    [BaseSpec EXCEPT !.project = <<"Q">>],
    [BaseSpec EXCEPT !.ai_guidelines = <<"G">>] }

(***************************************************************************)
(* SpecLoader: load() caches the first result in _specs.                   *)
(***************************************************************************)
\* SpecLoader.load: the cache if there is one, else the files on disk
load(cache, disk) == IF cache # <<>> THEN cache[1] ELSE disk

\* SpecLoader.load raises FileNotFoundError: nothing is cached yet and
\* workshop.yml or modules.yml is missing
LoadRaises(cache, disk) ==
  cache = <<>> /\ ("workshop" \notin DOMAIN disk \/ "modules" \notin DOMAIN disk)

\* SpecLoader.get_modules
get_modules(specs) == Get(specs.modules, "modules", <<>>)

(***************************************************************************)
(* PreludeGenerator.generate and compute_hash.  A TLA+ string cannot hold   *)
(* a backquote: the backquotes of the rendered text are written '.         *)
(***************************************************************************)
RECURSIVE DeliverableLines(_)
DeliverableLines(ds) ==
  IF ds = <<>> THEN <<>>
  ELSE <<"  - '" \o PathStr(Head(ds)) \o "'">> \o DeliverableLines(Tail(ds))

\* the lines one module contributes; i is its 1-based position
ModuleLines(i, module) ==
  << "### " \o FmtInt(i) \o ". " \o Get(module, "title", Concat(module.id))
       \o " ('" \o Concat(module.id) \o "')",
     "**Objective:** " \o module.objective,
     "**Duration:** " \o FmtInt(module.duration_minutes) \o " min",
     "**Deliverables:**" >>
  \o DeliverableLines(Get(module, "deliverables", <<>>))
  \o (IF Get(module, "depends_on", <<>>) # <<>>
      THEN <<"**Prerequisites:** " \o JoinComma(module.depends_on)>>
      ELSE <<>>)
  \o <<"">>

RECURSIVE AllModuleLines(_, _)
AllModuleLines(i, modules) ==
  IF modules = <<>> THEN <<>>
  ELSE ModuleLines(i, Head(modules)) \o AllModuleLines(i + 1, Tail(modules))

HeaderLines(workshop, profile) ==
  << "# Workshop Specification Context",
     "",
     "**Workshop ID:** " \o workshop.id,
     "**Title:** " \o workshop.title,
     "**Version:** " \o workshop.version,
     "**Audience:** " \o workshop.audience,
     "**Domain:** " \o profile.domain,
     "",
     "## Structure and Policies",
     "",
     "- Duration: " \o FmtInt(workshop.duration.groups) \o " groups × "
       \o FmtInt(workshop.duration.sessions_per_group) \o " sessions ("
       \o FmtInt(workshop.duration.session_minutes) \o " min each)",
     "- Student AI usage: **" \o workshop.policy.student_ai_usage \o "**",
     "- License: " \o workshop.policy.license,
     "- Outputs: slides="
       \o FmtBool(Get(Get(workshop, "outputs", <<>>), "slides", TRUE))
       \o ", handouts="
       \o FmtBool(Get(Get(workshop, "outputs", <<>>), "handouts", TRUE)),
     "",
     "## Repository Structure",
     "",
     "'''",
     workshop.id \o "/",
     "  spec/          # Specifications (source of truth)",
     "  labs/          # Student exercises",
     "  instructor/    # Instructor-only materials",
     "  reference/     # Reference solutions",
     "'''",
     "",
     "## Learning Modules",
     "" >>

ConstraintLines ==
  << "## Constraints and Rules",
     "",
     "1. All generated content MUST align with module objectives",
     "2. All declared deliverables MUST be created",
     "3. Student AI policy MUST be respected in materials",
     "4. File naming follows spec conventions (lowercase, dashes)",
     "5. Instructor vs student separation MUST be maintained",
     "6. Code and documentation are written in English",
     "7. Generated materials reference their spec source (e.g., 'modules.yml#module-id')",
     "",
     "---",
     "",
     "Use this context to ensure all AI-generated content is spec-compliant,",
     "consistent across sessions, and aligned with workshop objectives." >>

\* the keys generate() subscripts without a default: a KeyError if one is
\* missing
GenerateRaises(specs) ==
  \/ {"id", "title", "version", "audience", "duration", "policy"}
       \ DOMAIN specs.workshop # {}
  \/ {"groups", "sessions_per_group", "session_minutes"}
       \ DOMAIN specs.workshop.duration # {}
  \/ {"student_ai_usage", "license"} \ DOMAIN specs.workshop.policy # {}
  \/ "domain" \notin DOMAIN specs.profile
  \/ \E k \in 1..Len(get_modules(specs)) :
       {"id", "objective", "duration_minutes"} \ DOMAIN get_modules(specs)[k] # {}

\* PreludeGenerator.generate: the text rendered from the loaded specs
generate(specs) ==
  JoinLines(
    HeaderLines(specs.workshop, specs.profile)
    \o AllModuleLines(1, get_modules(specs))
    \o (IF specs.project # <<>>
        THEN <<"## Project Context", "", Concat(Strip(specs.project)), "">>
        ELSE <<>>)
    \o (IF specs.ai_guidelines # <<>>
        THEN <<"## AI Generation Guidelines", "",
               Concat(Strip(specs.ai_guidelines)), "">>
        ELSE <<>>)
    \o ConstraintLines)

\* compute_hash salted with the time of the call
compute_hash_salted(content) ==
  <<"sha256/16", content, FmtInt(clock)>>

\* compute_hash: the first 16 hex digits of SHA-256.  The digest is kept
\* symbolic: a value determined by the content and by nothing else, and
\* distinct for distinct contents (no collision is assumed to occur).
compute_hash(content) == <<"sha256/16", content>>

(***************************************************************************)
(* Content validator (forge/content_validator.py).  A slide line is        *)
(* modelled by what the validator's tests see of it:                       *)
(*   "sep"    line.strip() == "---"                                        *)
(*   "fence"  line.strip() starts with three backquotes                    *)
(*   "bullet" line.strip() starts with a bullet marker                     *)
(*   "header" line.strip() starts with "#", no split notation problem      *)
(*   "badsplit" a "##" title with "(1/" not at its end                     *)
(*   "text"   any other non-empty line,   "blank"  an empty line           *)
(***************************************************************************)
MAX_CODE_LINES == 12
MAX_BULLETS == 5
MAX_TOTAL_LINES == 15

ContentViolation(file, line, rule, message) ==
  [file |-> file, line |-> line, rule |-> rule, message |-> message]

\* SlideValidator._check_code_blocks, from line i with the loop's locals
RECURSIVE CodeBlocksFrom(_, _, _, _, _, _)
CodeBlocksFrom(lines, file, i, in_code, code_start, code_lines) ==
  IF i > Len(lines) THEN <<>>
  ELSE IF lines[i] = "fence"
    THEN IF ~in_code
         THEN CodeBlocksFrom(lines, file, i + 1, TRUE, i, 0)
         ELSE (IF code_lines > MAX_CODE_LINES
               THEN <<ContentViolation(file, code_start, "code-block-length",
                        "Code block has " \o FmtInt(code_lines) \o " lines (max "
                        \o FmtInt(MAX_CODE_LINES) \o "). "
                        \o "Split into multiple slides with (1/2), (2/2) notation.")>>
               ELSE <<>>)
              \o CodeBlocksFrom(lines, file, i + 1, FALSE, code_start, code_lines)
  ELSE IF in_code
    THEN CodeBlocksFrom(lines, file, i + 1, in_code, code_start, code_lines + 1)
  ELSE CodeBlocksFrom(lines, file, i + 1, in_code, code_start, code_lines)

_check_code_blocks(lines, file) == CodeBlocksFrom(lines, file, 1, FALSE, 0, 0)

\* SlideValidator._check_bullet_lists, from line i with the loop's locals
RECURSIVE BulletsFrom(_, _, _, _, _)
BulletsFrom(lines, file, i, bullet_count, slide_start) ==
  IF i > Len(lines)
  THEN (IF bullet_count > MAX_BULLETS
        THEN <<ContentViolation(file, slide_start, "bullet-count",
                 "Slide has " \o FmtInt(bullet_count) \o " bullet points (max "
                 \o FmtInt(MAX_BULLETS) \o ")")>>
        ELSE <<>>)
  ELSE IF lines[i] = "sep"
    THEN (IF bullet_count > MAX_BULLETS
          THEN <<ContentViolation(file, slide_start, "bullet-count",
                   "Slide has " \o FmtInt(bullet_count) \o " bullet points (max "
                   \o FmtInt(MAX_BULLETS) \o "). "
                   \o "Split content across multiple slides.")>>
          ELSE <<>>)
         \o BulletsFrom(lines, file, i + 1, 0, i + 1)
  ELSE IF lines[i] = "bullet"
    THEN BulletsFrom(lines, file, i + 1, bullet_count + 1, slide_start)
  ELSE BulletsFrom(lines, file, i + 1, bullet_count, slide_start)

_check_bullet_lists(lines, file) == BulletsFrom(lines, file, 1, 0, 0)

\* SlideValidator._check_slide_titles
RECURSIVE TitlesFrom(_, _, _)
TitlesFrom(lines, file, i) ==
  IF i > Len(lines) THEN <<>>
  ELSE (IF lines[i] = "badsplit"
        THEN <<ContentViolation(file, i, "split-notation",
                 "Split slide notation should be at end of title: '## Title (1/2)'")>>
        ELSE <<>>)
       \o TitlesFrom(lines, file, i + 1)

_check_slide_titles(lines, file) == TitlesFrom(lines, file, 1)

\* SlideValidator._check_total_content_per_slide, from line i
RECURSIVE TotalFrom(_, _, _, _, _)
TotalFrom(lines, file, i, content_lines, slide_start) ==
  IF i > Len(lines) THEN <<>>
  ELSE IF lines[i] = "sep"
    THEN (IF content_lines > MAX_TOTAL_LINES
          THEN <<ContentViolation(file, slide_start, "total-content",
                   "Slide has " \o FmtInt(content_lines) \o " content lines (max "
                   \o FmtInt(MAX_TOTAL_LINES) \o "). "
                   \o "Split into multiple slides - Cognitive Load Theory suggests less is better.")>>
          ELSE <<>>)
         \o TotalFrom(lines, file, i + 1, 0, i + 1)
  ELSE IF lines[i] = "fence"
    THEN TotalFrom(lines, file, i + 1, content_lines, slide_start)
  ELSE IF lines[i] \in {"bullet", "text"}
    THEN TotalFrom(lines, file, i + 1, content_lines + 1, slide_start)
  ELSE TotalFrom(lines, file, i + 1, content_lines, slide_start)

_check_total_content_per_slide(lines, file) == TotalFrom(lines, file, 1, 0, 0)

\* SlideValidator.validate_file
validate_file(slide) ==
  _check_code_blocks(slide.lines, slide.path)
  \o _check_bullet_lists(slide.lines, slide.path)
  \o _check_slide_titles(slide.lines, slide.path)
  \o _check_total_content_per_slide(slide.lines, slide.path)

\* validate_slides: the files of slides_dir in glob order, each with its
\* violations; files without violations are left out of the result
RECURSIVE validate_slides(_)
validate_slides(slides) ==
  IF slides = <<>> THEN <<>>
  ELSE (IF validate_file(Head(slides)) # <<>>
        THEN <<[path |-> Head(slides).path, violations |-> validate_file(Head(slides))]>>
        ELSE <<>>)
       \o validate_slides(Tail(slides))

(***************************************************************************)
(* Policy engine (forge/policies.py).  A target directory is               *)
(*   [exists, paths, readme, labs_md, slides]: whether it exists, the      *)
(*   paths present below it, the required terms its lower-cased README     *)
(*   contains, the *.md files below labs/ in rglob order with the          *)
(*   forbidden markers each contains, and the *.md files of                *)
(*   instructor/slides in glob order.  A target_dir argument is <<>> for   *)
(*   None and <<directory>> for a path.                                    *)
(***************************************************************************)
PolicyViolation(rule_id, severity, message, path) ==
  [rule_id |-> rule_id, severity |-> severity, message |-> message, path |-> path]

\* a guard that tests the argument only, not the directory on disk
NoTarget_none_only(target_dir) == target_dir = <<>>

\* "not target_dir or not target_dir.exists()"
NoTarget(target_dir) == target_dir = <<>> \/ ~target_dir[1].exists

\* module.get("id", "unknown"); identifiers are kept as characters
ModuleId(module) ==
  Concat(Get(module, "id", <<"u","n","k","n","o","w","n">>))

\* a rule that reports the first failed condition of a module only
ModuleCompletenessOf_first_only(module) ==
  IF Get(module, "objective", "") = ""
  THEN <<PolicyViolation("module-completeness", "error",
           "Module '" \o ModuleId(module) \o "' missing objective",
           "modules.yml#" \o ModuleId(module))>>
  ELSE IF Get(module, "deliverables", <<>>) = <<>>
  THEN <<PolicyViolation("module-completeness", "error",
           "Module '" \o ModuleId(module) \o "' has no deliverables",
           "modules.yml#" \o ModuleId(module))>>
  ELSE IF Get(module, "duration_minutes", 0) <= 0
  THEN <<PolicyViolation("module-completeness", "error",
           "Module '" \o ModuleId(module) \o "' has invalid duration: "
           \o FmtInt(Get(module, "duration_minutes", 0)),
           "modules.yml#" \o ModuleId(module))>>
  ELSE <<>>

\* ModuleCompletenessRule.check for one module
ModuleCompletenessOf(module) ==
  (IF Get(module, "objective", "") = ""
   THEN <<PolicyViolation("module-completeness", "error",
            "Module '" \o ModuleId(module) \o "' missing objective",
            "modules.yml#" \o ModuleId(module))>>
   ELSE <<>>)
  \o (IF Get(module, "deliverables", <<>>) = <<>>
      THEN <<PolicyViolation("module-completeness", "error",
               "Module '" \o ModuleId(module) \o "' has no deliverables",
               "modules.yml#" \o ModuleId(module))>>
      ELSE <<>>)
  \o (IF Get(module, "duration_minutes", 0) <= 0
      THEN <<PolicyViolation("module-completeness", "error",
               "Module '" \o ModuleId(module) \o "' has invalid duration: "
               \o FmtInt(Get(module, "duration_minutes", 0)),
               "modules.yml#" \o ModuleId(module))>>
      ELSE <<>>)

RECURSIVE ModuleCompletenessRule(_)
ModuleCompletenessRule(modules) ==
  IF modules = <<>> THEN <<>>
  ELSE ModuleCompletenessOf(Head(modules)) \o ModuleCompletenessRule(Tail(modules))

\* DeliverableExistenceRule.check: the inner loop over one module's deliverables
RECURSIVE MissingDeliverables(_, _)
MissingDeliverables(ds, target_dir) ==
  IF ds = <<>> THEN <<>>
  ELSE (IF PathStr(Head(ds)) \notin target_dir[1].paths
        THEN <<PolicyViolation("deliverable-existence", "error",
                 "Deliverable not found: " \o PathStr(Head(ds)), PathStr(Head(ds)))>>
        ELSE <<>>)
       \o MissingDeliverables(Tail(ds), target_dir)

RECURSIVE DeliverableLoop(_, _)
DeliverableLoop(modules, target_dir) ==
  IF modules = <<>> THEN <<>>
  ELSE MissingDeliverables(Get(Head(modules), "deliverables", <<>>), target_dir)
       \o DeliverableLoop(Tail(modules), target_dir)

DeliverableExistenceRule(modules, target_dir) ==
  IF NoTarget(target_dir) THEN <<>> ELSE DeliverableLoop(modules, target_dir)

\* ReadmeRequirementsRule.check
ReadmeRequirementsRule(target_dir) ==
  IF NoTarget(target_dir) THEN <<>>
  ELSE IF "README.md" \notin target_dir[1].paths
    THEN <<PolicyViolation("readme-requirements", "error",
             "README.md not found in workshop root", "README.md")>>
  ELSE (IF "spec" \notin target_dir[1].readme
        THEN <<PolicyViolation("readme-requirements", "warn",
                 "README should mention specifications or spec-driven", "README.md")>>
        ELSE <<>>)
       \o (IF "workshopforge" \notin target_dir[1].readme
           THEN <<PolicyViolation("readme-requirements", "warn",
                    "README should mention workshopforge tool", "README.md")>>
           ELSE <<>>)

\* InstructorSeparationRule.check
InstructorSeparationRule(target_dir) ==
  IF NoTarget(target_dir) THEN <<>>
  ELSE (IF "instructor" \notin target_dir[1].paths
        THEN <<PolicyViolation("instructor-separation", "error",
                 "instructor/ directory not found", "instructor/")>>
        ELSE <<>>)
       \o (IF "reference" \notin target_dir[1].paths
           THEN <<PolicyViolation("instructor-separation", "error",
                    "reference/ directory not found", "reference/")>>
           ELSE <<>>)

\* the first of TODO, FIXME, XXX a file contains, None if it has none
FirstForbidden(markers) ==
  IF "TODO" \in markers THEN "TODO"
  ELSE IF "FIXME" \in markers THEN "FIXME"
  ELSE IF "XXX" \in markers THEN "XXX"
  ELSE None

RECURSIVE ForbiddenLoop(_)
ForbiddenLoop(md_files) ==
  IF md_files = <<>> THEN <<>>
  ELSE (IF FirstForbidden(Head(md_files).markers) # None
        THEN <<PolicyViolation("forbidden-patterns", "warn",
                 "Found '" \o FirstForbidden(Head(md_files).markers)
                 \o "' in student materials", Head(md_files).path)>>
        ELSE <<>>)
       \o ForbiddenLoop(Tail(md_files))

\* ForbiddenPatternsRule.check
ForbiddenPatternsRule(target_dir) ==
  IF NoTarget(target_dir) THEN <<>>
  ELSE IF "labs" \notin target_dir[1].paths THEN <<>>
  ELSE ForbiddenLoop(target_dir[1].labs_md)

\* re.compile(r"^[a-z0-9-]+$").match on an identifier given as characters
IdChars ==
  {"a","b","c","d","e","f","g","h","i","j","k","l","m","n","o","p","q","r",
   "s","t","u","v","w","x","y","z","0","1","2","3","4","5","6","7","8","9","-"}

\* "$" also matches before one trailing newline
IdPatternMatch(id) ==
  LET core == IF id # <<>> /\ id[Len(id)] = "\n"
              THEN SubSeq(id, 1, Len(id) - 1) ELSE id
  IN core # <<>> /\ \A k \in 1..Len(core) : core[k] \in IdChars

\* NamingConventionRule.check
RECURSIVE NamingConventionRule(_)
NamingConventionRule(modules) ==
  IF modules = <<>> THEN <<>>
  ELSE (IF ~IdPatternMatch(Get(Head(modules), "id", <<>>))
        THEN <<PolicyViolation("naming-convention", "warn",
                 "Module ID '" \o Concat(Get(Head(modules), "id", <<>>))
                 \o "' doesn't follow convention (lowercase-with-dashes)",
                 "modules.yml#" \o Concat(Get(Head(modules), "id", <<>>)))>>
        ELSE <<>>)
       \o NamingConventionRule(Tail(modules))

\* SlideContentRule.check: the ContentViolations of one file converted
RECURSIVE ConvertContent(_, _)
ConvertContent(slide_file, cvs) ==
  IF cvs = <<>> THEN <<>>
  ELSE <<PolicyViolation("slide-content-quality", "error", Head(cvs).message,
           slide_file \o ":" \o FmtInt(Head(cvs).line))>>
       \o ConvertContent(slide_file, Tail(cvs))

RECURSIVE SlideLoop(_)
SlideLoop(results) ==
  IF results = <<>> THEN <<>>
  ELSE ConvertContent(Head(results).path, Head(results).violations)
       \o SlideLoop(Tail(results))

SlideContentRule(target_dir) ==
  IF NoTarget(target_dir) THEN <<>>
  ELSE IF "instructor/slides" \notin target_dir[1].paths THEN <<>>
  ELSE SlideLoop(validate_slides(target_dir[1].slides))

\* PolicyEngine.DEFAULT_RULES, each rule by its rule_id
DEFAULT_RULES ==
  <<"module-completeness", "deliverable-existence", "readme-requirements",
    "instructor-separation", "forbidden-patterns", "naming-convention",
    "slide-content-quality">>

\* the context PolicyEngine.check hands to every rule; spec_loader is the
\* loader object: its cache and the files it reads
Context(cache, disk, target_dir) ==
  [spec_loader |-> [cache |-> cache, disk |-> disk],
   target_dir |-> target_dir, config |-> <<>>]

\* rule.check(context), by the class of the rule
RuleCheck(rule, context) ==
  LET specs == load(context.spec_loader.cache, context.spec_loader.disk)
      target_dir == context.target_dir
  IN CASE rule = "module-completeness" -> ModuleCompletenessRule(get_modules(specs))
       [] rule = "deliverable-existence" ->
            DeliverableExistenceRule(get_modules(specs), target_dir)
       [] rule = "readme-requirements" -> ReadmeRequirementsRule(target_dir)
       [] rule = "instructor-separation" -> InstructorSeparationRule(target_dir)
       [] rule = "forbidden-patterns" -> ForbiddenPatternsRule(target_dir)
       [] rule = "naming-convention" -> NamingConventionRule(get_modules(specs))
       [] rule = "slide-content-quality" -> SlideContentRule(target_dir)

\* the rules that call loader.get_modules(): it fills the loader's cache
ReadsLoader(rule, context) ==
  \/ rule \in {"module-completeness", "naming-convention"}
  \/ rule = "deliverable-existence" /\ ~NoTarget(context.target_dir)

\* a deliverable-existence rule that takes target_dir out of the context
\* it was handed
ContextAfter_consuming(rule, context) ==
  IF rule = "deliverable-existence"
  THEN [context EXCEPT !.target_dir = <<>>]
  ELSE context

\* the context object once rule.check(context) has returned: no rule
\* assigns to it, a rule that reads the modules leaves the loader loaded
ContextAfter(rule, context) ==
  IF ReadsLoader(rule, context)
  THEN [context EXCEPT !.spec_loader.cache =
          <<load(context.spec_loader.cache, context.spec_loader.disk)>>]
  ELSE context

\* rule.check(context) raising an error no rule handles: read_text of a
\* *.md file below labs/ that is not UTF-8 raises UnicodeDecodeError
RuleRaises(rule, context) ==
  /\ rule = "forbidden-patterns"
  /\ ~NoTarget(context.target_dir)
  /\ "labs" \in context.target_dir[1].paths
  /\ \E k \in 1..Len(context.target_dir[1].labs_md) :
       ~Get(context.target_dir[1].labs_md[k], "decodable", TRUE)

\* a loop that skips a rule that raises and goes on with the next
RECURSIVE RunRules_swallowing(_, _, _, _)
RunRules_swallowing(rs, context, violations, ran) ==
  IF rs = <<>>
  THEN [violations |-> violations, context |-> context, raised |-> FALSE,
        ran |-> ran]
  ELSE IF RuleRaises(Head(rs), context)
    THEN RunRules_swallowing(Tail(rs), context, violations, ran \o <<Head(rs)>>)
  ELSE RunRules_swallowing(Tail(rs), ContextAfter(Head(rs), context),
                           violations \o RuleCheck(Head(rs), context),
                           ran \o <<Head(rs)>>)

\* the loop of PolicyEngine.check over self.rules; ran lists the rules
\* whose check was called.  No statement of the loop handles an error: a
\* rule that raises ends it, and no list is returned
RECURSIVE RunRules(_, _, _, _)
RunRules(rs, context, violations, ran) ==
  IF rs = <<>>
  THEN [violations |-> violations, context |-> context, raised |-> FALSE,
        ran |-> ran]
  ELSE IF RuleRaises(Head(rs), context)
    THEN [violations |-> <<>>, context |-> context, raised |-> TRUE,
          ran |-> ran \o <<Head(rs)>>]
  ELSE RunRules(Tail(rs), ContextAfter(Head(rs), context),
                violations \o RuleCheck(Head(rs), context),
                ran \o <<Head(rs)>>)

\* PolicyEngine.check with rs registered: the violations, the context as
\* the rules leave it, and whether a rule raised
PolicyEngine_check(rs, cache, disk, target_dir) ==
  RunRules(rs, Context(cache, disk, target_dir), <<>>, <<>>)

\* PolicyEngine.has_errors
\* has_errors blocking on a violation of any severity
has_errors_any_severity(violations) ==
  violations # <<>>

has_errors(violations) ==
  \E k \in 1..Len(violations) : violations[k].severity = "error"

\* filter_allowed that also drops every warning
RECURSIVE filter_allowed_warnings_too(_, _)
filter_allowed_warnings_too(violations, allowed_rules) ==
  IF violations = <<>> THEN <<>>
  ELSE (IF \/ \E k \in 1..Len(allowed_rules) : allowed_rules[k] = Head(violations).rule_id
           \/ Head(violations).severity = "warn"
        THEN <<>> ELSE <<Head(violations)>>)
       \o filter_allowed_warnings_too(Tail(violations), allowed_rules)

\* PolicyEngine.filter_allowed; allowed_rules is a list of rule ids
RECURSIVE filter_allowed(_, _)
filter_allowed(violations, allowed_rules) ==
  IF violations = <<>> THEN <<>>
  ELSE (IF \E k \in 1..Len(allowed_rules) : allowed_rules[k] = Head(violations).rule_id
        THEN <<>> ELSE <<Head(violations)>>)
       \o filter_allowed(Tail(violations), allowed_rules)

(***************************************************************************)
(* forge/utils.py: timestamp and safe_filename.                            *)
(***************************************************************************)
\* timestamp(): datetime.utcnow().isoformat() + "Z" at clock value c, kept
\* in pieces so that the separators can be replaced
timestamp(c) == <<"2025-01-01T00", ":", "00", ":", "0" \o FmtInt(c), ".", "000001", "Z">>

\* str.replace(old, new) with a one-character old
RECURSIVE Replace(_, _, _)
Replace(cs, old, new) ==
  IF cs = <<>> THEN <<>>
  ELSE <<IF Head(cs) = old THEN new ELSE Head(cs)>> \o Replace(Tail(cs), old, new)

Upper ==
  [A |-> "a", B |-> "b", C |-> "c", D |-> "d", E |-> "e", F |-> "f", G |-> "g",
   H |-> "h", I |-> "i", J |-> "j", K |-> "k", L |-> "l", M |-> "m", N |-> "n",
   O |-> "o", P |-> "p", Q |-> "q", R |-> "r", S |-> "s", T |-> "t", U |-> "u",
   V |-> "v", W |-> "w", X |-> "x", Y |-> "y", Z |-> "z"]

\* str.lower()
RECURSIVE Lower(_)
Lower(cs) ==
  IF cs = <<>> THEN <<>>
  ELSE <<IF Head(cs) \in DOMAIN Upper THEN Upper[Head(cs)] ELSE Head(cs)>>
       \o Lower(Tail(cs))

\* re.sub(r"[^a-z0-9-]", "", s)
RECURSIVE KeepSafe(_)
KeepSafe(cs) ==
  IF cs = <<>> THEN <<>>
  ELSE (IF Head(cs) \in IdChars THEN <<Head(cs)>> ELSE <<>>) \o KeepSafe(Tail(cs))

\* re.sub(r"-+", "-", s)
RECURSIVE CollapseDashes(_)
CollapseDashes(cs) ==
  IF Len(cs) < 2 THEN cs
  ELSE IF cs[1] = "-" /\ cs[2] = "-" THEN CollapseDashes(Tail(cs))
  ELSE <<cs[1]>> \o CollapseDashes(Tail(cs))

safe_filename(cs) ==
  LET dashed == Replace(Replace(Lower(cs), " ", "-"), "_", "-")
      kept == CollapseDashes(KeepSafe(dashed))
  IN RStrip(LStrip(kept, {"-"}), {"-"})

\* the goal slice goal[:30] of _log_operation
SlugLen == 30

(***************************************************************************)
(* forge/providers: get_provider, get_name and complete.                   *)
(***************************************************************************)
KnownProviders == {"echo", "openai", "anthropic"}
\* the names the exploration constructs an orchestrator with
ProviderNames == {"anthropic", "gemini"}

\* get_name of OpenAIProvider and of AnthropicProvider, each with its
\* default model
get_name(p) ==
  IF p = "openai" THEN "openai-gpt-4"
  ELSE "anthropic-claude-3-5-sonnet-20241022"

Responses == {"response A"}
BackendFailure == "<raised>"

\* plan catching the failure of complete() and going on with it
Raised_swallowed(response) ==
  FALSE

\* plan and apply have no handler around provider.complete: when it raises,
\* the operation ends there and the exception reaches the caller
Raised(response) ==
  response = BackendFailure

\* what complete() can do: return a text or raise.  The OpenAI stub always
\* raises, the Anthropic call returns a text or raises
complete(p) ==
  IF p = "openai" THEN {BackendFailure}
  ELSE Responses \cup {BackendFailure}

(***************************************************************************)
(* Audit log: AIOrchestrator._log_operation.                               *)
(***************************************************************************)
\* format_plan_report(plan): the plan rendered as Markdown
format_plan_report(plan) == <<"plan.md", plan>>

\* the log directory named by the goal slug alone
LogDirName_slug_only(c, goal) ==
  Concat(safe_filename(SubSeq(goal, 1, Min(SlugLen, Len(goal)))))

\* the name of the log directory for a goal at clock value c
LogDirName(c, goal) ==
  Concat(Replace(Replace(timestamp(c), ":", "-"), ".", "-"))
  \o "-" \o Concat(safe_filename(SubSeq(goal, 1, Min(SlugLen, Len(goal)))))

\* a record call that writes nothing
_log_operation_silent(logs, c, operation, goal, prelude, response, plan) == logs

\* the files of the log directory after _log_operation; an existing
\* directory is reused (ensure_dir) and a plan.md it holds is kept when
\* the operation is not a plan
_log_operation(logs, c, operation, goal, prelude, response, plan) ==
  LET name == LogDirName(c, goal)
      entry == [prelude_txt |-> prelude,
                prompt_json |-> [goal |-> Concat(goal), operation |-> operation],
                response_txt |-> response,
                plan_json |-> plan,
                plan_md |-> IF operation = "plan" THEN <<format_plan_report(plan)>>
                            ELSE IF name \in DOMAIN logs THEN logs[name].plan_md
                            ELSE <<>>]
  IN [n \in DOMAIN logs \cup {name} |-> IF n = name THEN entry ELSE logs[n]]

(***************************************************************************)
(* ChangeSet: _simulate_changes and _apply_changes.                        *)
(***************************************************************************)
_simulate_changes(goal) ==
  << [path |-> "example/generated-file.md", action |-> "create",
      description |-> "Generated for goal: " \o Concat(goal)] >>

\* the first n entries of changes written one after the other
RECURSIVE WriteAll(_, _, _)
WriteAll(fs, changes, n) ==
  IF n = 0 THEN fs
  ELSE LET before == WriteAll(fs, changes, n - 1)
           change == changes[n]
       IN IF change.action = "create"
          THEN [q \in DOMAIN before \cup {change.path} |->
                  IF q = change.path
                  THEN Get(change, "content",
                           "# Generated content\n\nGoal: " \o change.description)
                  ELSE before[q]]
          ELSE before

\* writes that are undone when a later entry fails
_apply_changes_rollback(fs, changes, n) ==
  IF n < Len(changes) THEN fs ELSE WriteAll(fs, changes, n)

\* the file system after the first n entries of changes were processed:
\* only an entry whose action is "create" is written
RECURSIVE _apply_changes(_, _, _)
_apply_changes(fs, changes, n) ==
  IF n = 0 THEN fs
  ELSE LET before == _apply_changes(fs, changes, n - 1)
           change == changes[n]
       IN IF change.action = "create"
          THEN [q \in DOMAIN before \cup {change.path} |->
                  IF q = change.path
                  THEN Get(change, "content",
                           "# Generated content\n\nGoal: " \o change.description)
                  ELSE before[q]]
          ELSE before

(***************************************************************************)
(* Persisted state: _verify_spec_stability and _update_state.              *)
(***************************************************************************)
\* _verify_spec_stability with the comparison inverted
StabilityViolated_inverted(state, expected_hash) ==
  state # <<>> /\ state[1].spec_hash = expected_hash

\* _verify_spec_stability that never raises
StabilityViolated_skipped(state, expected_hash) == FALSE

\* TRUE iff _verify_spec_stability raises
StabilityViolated(state, expected_hash) ==
  state # <<>> /\ state[1].spec_hash # expected_hash

\* _update_state leaving the goal out of the record
_update_state_goalless(spec_hash, provider_name, last_goal, c) ==
  << [spec_hash |-> spec_hash, provider |-> provider_name,
      last_goal |-> "", updated_at |-> Concat(timestamp(c))] >>

\* AIOrchestrator._update_state: state.json rewritten as one record
_update_state(spec_hash, provider_name, last_goal, c) ==
  << [spec_hash |-> spec_hash, provider |-> provider_name,
      last_goal |-> Concat(last_goal), updated_at |-> Concat(timestamp(c))] >>

\* ComplianceReporter.generate_reports: the violation set rendered anew
generate_reports(violations) == <<violations>>

(***************************************************************************)
(* The environment: target directories, goals, allow-lists.                *)
(***************************************************************************)
NoDir ==
  [exists |-> FALSE, paths |-> {}, readme |-> {}, labs_md |-> <<>>, slides |-> <<>>]
FullDir ==
  [exists |-> TRUE,
   paths |-> {"README.md", "labs", "labs/setup", "labs/setup/README.md",
              "instructor", "reference"},
   readme |-> {"spec", "workshopforge"},
   labs_md |-> <<[path |-> "labs/setup/README.md", markers |-> {}]>>,
   slides |-> <<>>]
\* complete, but the README lacks a term and a lab holds a TODO: warnings only
WarnDir ==
  [FullDir EXCEPT !.readme = {"spec"},
                  !.labs_md = <<[path |-> "labs/setup/README.md", markers |-> {"TODO"}]>>]
\* as WarnDir, and reference/ is missing: one error among the warnings
PartDir == [WarnDir EXCEPT !.paths = @ \ {"reference"}]

\* the target directories the exploration visits
Targets == {NoDir, WarnDir, PartDir}

Goals == { <<"A","d","d"," ","l","a","b">>, <<"a","d","d","_","l","a","b">> }

AllowLists ==
  { <<>>,
    <<"instructor-separation">>,
    <<"module-completeness", "forbidden-patterns">> }

\* the arguments the exploration evaluates the pure parts on, and their
\* values (each is computed by the operator it tabulates)
TargetArgs == {<<>>} \cup {<<t>> : t \in Targets}

\* a module with two declared deliverables
SpecTwoDeliverables ==
  [BaseSpec EXCEPT !.modules.modules[1].deliverables =
     << <<"labs", "setup", "README.md">>, <<"labs", "setup", "verify.sh">> >>]

ScenarioSpecs == {BaseSpec, SpecTwoDeliverables}

\* the paths the check scenario creates below the target directory: the
\* declared deliverables, instructor/ and reference/
ScenarioPaths ==
  { <<"labs", "setup", "README.md">>, <<"labs", "setup", "verify.sh">>,
    <<"instructor">>, <<"reference">> }

\* a path and the directories above it
Prefixes(parts) == {PathStr(SubSeq(parts, 1, k)) : k \in 1..Len(parts)}

\* an existing target directory holding the created paths and nothing
\* else; a created file is empty
Created(ps) ==
  [exists |-> TRUE,
   paths |-> UNION {Prefixes(parts) : parts \in ps},
   readme |-> {},
   labs_md |-> IF <<"labs", "setup", "README.md">> \in ps
               THEN <<[path |-> "labs/setup/README.md", markers |-> {}]>>
               ELSE <<>>,
   slides |-> <<>>]

ScenarioTargets == {Created(ps) : ps \in SUBSET ScenarioPaths}

\* the parts of a ChangeSet path below out/instructor, <<>> for a path that
\* lies elsewhere (paths are relative to the specification's parent)
TargetParts(path) ==
  IF path = "out/instructor/labs/setup/README.md"
  THEN <<"labs", "setup", "README.md">>
  ELSE <<>>

\* the target directory once the first n entries of changes are written:
\* a created file brings the directories above it, and a Markdown file
\* below labs/ is read by the rules with the generated text in it
RECURSIVE WriteTarget(_, _, _)
WriteTarget(t, changes, n) ==
  IF n = 0 THEN t
  ELSE LET before == WriteTarget(t, changes, n - 1)
           parts == TargetParts(changes[n].path)
           others == SelectSeq(before.labs_md, LAMBDA f : f.path # PathStr(parts))
       IN IF changes[n].action # "create" \/ parts = <<>> THEN before
          ELSE [before EXCEPT
                  !.exists = TRUE,
                  !.paths = @ \cup Prefixes(parts),
                  !.labs_md = IF parts[1] = "labs"
                              THEN others \o <<[path |-> PathStr(parts), markers |-> {}]>>
                              ELSE @]

\* the target directory the gate of apply would evaluate if the policy ran
\* on the staged ChangeSet
GateTarget_staged(t, changes) == WriteTarget(t, changes, Len(changes))

\* the target directory the gate of apply evaluates: out/instructor as it
\* is on disk when the policy runs, before _apply_changes
GateTarget(t, changes) == t

\* a module whose id breaks the naming convention and whose objective is
\* empty: two rules report on modules.yml#Set Up
SpecBadId ==
  [BaseSpec EXCEPT !.modules.modules[1].id = <<"S","e","t"," ","U","p">>,
                   !.modules.modules[1].objective = ""]

EngineSpecs == {BaseSpec, SpecNoObjective, SpecBadId}

\* as PartDir, with instructor/slides holding a slide of six bullets
SlideDir ==
  [PartDir EXCEPT
     !.paths = @ \cup {"instructor/slides", "instructor/slides/01.md"},
     !.slides = <<[path |-> "instructor/slides/01.md",
                   lines |-> <<"header", "bullet", "bullet", "bullet", "bullet",
                               "bullet", "bullet">>]>>]

EngineTargets == {NoDir, PartDir, SlideDir}

\* as WarnDir, and a second file below labs/ is not UTF-8 text
BinaryDir ==
  [WarnDir EXCEPT
     !.paths = @ \cup {"labs/setup/notes.md"},
     !.labs_md = @ \o <<[path |-> "labs/setup/notes.md", markers |-> {},
                         decodable |-> FALSE]>>]

\* modules.yml entries with the objective present, empty or absent, one
\* deliverable, none or no list, and a duration that is positive, zero,
\* negative or absent
CompletenessVariants ==
  LET objectives == {<<"Set up env">>, <<"">>, <<>>}
      deliverables == {<< << <<"labs", "setup", "README.md">> >> >>, << <<>> >>, <<>>}
      durations == {<<30>>, <<0>>, <<-5>>, <<>>}
      Put(r, k, opt) == IF opt = <<>> THEN Without(r, k) ELSE With(r, k, opt[1])
  IN {Put(Put(Put(BaseModule, "objective", o), "deliverables", ds),
          "duration_minutes", du) :
        o \in objectives, ds \in deliverables, du \in durations}

\* a second module, complete or failing one or all conditions
SecondModules ==
  LET intro == [BaseModule EXCEPT !.id = <<"i","n","t","r","o">>]
  IN {intro, [intro EXCEPT !.objective = ""],
      Without(Without(Without(intro, "objective"), "deliverables"),
              "duration_minutes")}

\* specifications of one module, and of two
CompletenessSpecs ==
  {[BaseSpec EXCEPT !.modules.modules = <<m>>] : m \in CompletenessVariants}
  \cup {[BaseSpec EXCEPT !.modules.modules = <<m, n>>] :
          m \in {BaseModule, [BaseModule EXCEPT !.duration_minutes = 0],
                 [BaseModule EXCEPT !.objective = "", !.deliverables = <<>>,
                                    !.duration_minutes = -5]},
          n \in SecondModules}

\* n lines of one kind
Rep(n, kind) == [k \in 1..n |-> kind]

\* slide bodies at and just over each limit: bullets, content lines, and
\* the lines of one code block
SlideBodies ==
  { <<"header">> \o Rep(MAX_BULLETS, "bullet"),
    <<"header">> \o Rep(MAX_BULLETS + 1, "bullet"),
    <<"header">> \o Rep(MAX_TOTAL_LINES, "text"),
    <<"header">> \o Rep(MAX_TOTAL_LINES + 1, "text"),
    <<"header", "fence">> \o Rep(MAX_CODE_LINES, "text") \o <<"fence">>,
    <<"header", "fence">> \o Rep(MAX_CODE_LINES + 1, "text") \o <<"fence">> }

\* slide files of one slide, and of two slides separated by "---"
SlideFiles ==
  SlideBodies \cup {a \o <<"sep">> \o b : a \in SlideBodies, b \in SlideBodies}

\* as FullDir, with instructor/slides holding one slide file
DensityDir(lines) ==
  [FullDir EXCEPT
     !.paths = @ \cup {"instructor/slides", "instructor/slides/01.md"},
     !.slides = <<[path |-> "instructor/slides/01.md", lines |-> lines]>>]

DensityTargets == {DensityDir(lines) : lines \in SlideFiles}

\* a list reversed, and a list without its k-th entry
RECURSIVE Reverse(_)
Reverse(seq) == IF seq = <<>> THEN <<>> ELSE Reverse(Tail(seq)) \o <<Head(seq)>>

Remove(seq, k) == SubSeq(seq, 1, k - 1) \o SubSeq(seq, k + 1, Len(seq))

\* the rule lists an engine is given: the default, the default without one
\* rule, and each of these in the opposite order
RuleLists ==
  LET forward == {DEFAULT_RULES} \cup {Remove(DEFAULT_RULES, k) : k \in 1..Len(DEFAULT_RULES)}
  IN forward \cup {Reverse(rs) : rs \in forward}
Preludes == [specs \in Specs \cup ModuleSpecs \cup FieldSpecs \cup {SpecNoModuleList} |->
               generate(specs)]
\* the specifications and target arguments whose runs are tabulated: the
\* runs on a target directory that exists, where the output rules read it
TabledSpecs == Specs \cup FieldSpecs \cup {SpecNoModuleList}
                     \cup ScenarioSpecs \cup EngineSpecs
TabledTargets == TargetArgs
                   \cup {<<t>> : t \in ScenarioTargets \cup EngineTargets
                                        \cup {BinaryDir}}
Runs == [specs \in TabledSpecs |-> [target_dir \in TabledTargets |->
           PolicyEngine_check(DEFAULT_RULES, <<specs>>, specs, target_dir)]]
Violations == [specs \in TabledSpecs, target_dir \in TabledTargets |->
                 Runs[specs][target_dir].violations]

\* self.policy_engine.check(self.loader, target_dir) on a loader whose
\* cache is given: the violations, the loader's cache afterwards, whether
\* a rule raised, and the rules that were called
EngineRun(cache, target_dir) ==
  LET specs == load(cache, spec_files)
      tabled == /\ rules = DEFAULT_RULES
                /\ ~NoTarget(target_dir)
                /\ target_dir \in TabledTargets
      run == IF tabled THEN Runs[specs][target_dir]
             ELSE PolicyEngine_check(rules, cache, spec_files, target_dir)
  IN [violations |-> run.violations,
      cache |-> IF tabled THEN <<specs>> ELSE run.context.spec_loader.cache,
      raised |-> run.raised,
      ran |-> run.ran]

\* the engine run inside apply, whose loader the plan has loaded with
\* specs: tabulated also when there is no target directory
GateRun(specs, target_dir) ==
  IF rules = DEFAULT_RULES /\ target_dir \in TabledTargets
  THEN [violations |-> Runs[specs][target_dir].violations,
        cache |-> <<specs>>,
        raised |-> Runs[specs][target_dir].raised,
        ran |-> Runs[specs][target_dir].ran]
  ELSE EngineRun(<<specs>>, target_dir)

\* recov follows one attempt to recover from a stability error by
\* re-planning: "failed" after an apply raised the stability error,
\* "replanned" after a plan then succeeded on the same specification
\* files, "failed_again" when the next apply raised the error again
RecovAfter(op, outcome) ==
  IF op = "apply"
  THEN IF outcome = "stability_error"
       THEN (IF recov \in {"replanned", "failed_again"} THEN "failed_again" ELSE "failed")
       ELSE IF outcome = "backend_error" THEN recov
       ELSE "none"
  ELSE IF op = "plan" /\ outcome = "ok" /\ recov = "failed" THEN "replanned"
  ELSE recov

NoLast ==
  [op |-> "none", outcome |-> "none", goal |-> <<>>, allow |-> <<>>,
   spec_hash |-> <<>>, provider |-> "", success |-> FALSE,
   raw_violations |-> <<>>, violations |-> <<>>, changes |-> <<>>,
   message |-> "", log_dirs |-> <<>>, trace |-> <<>>, prior_state |-> <<>>,
   ran |-> <<>>]

(***************************************************************************)
(* The orchestrator (forge/orchestrator.py).                               *)
(***************************************************************************)
\* the directories __init__ creates with ensure_dir: the state directory,
\* the log directory and the report directory
StateDirs == {".workshopforge", "ai_logs", "reports"}

\* the state once SpecLoader and AIOrchestrator are constructed in a fresh
\* checkout; budget is the number of operations the exploration runs
InitWith(budget) ==
  /\ spec_files \in Specs
  /\ target = NoDir
  /\ loader_specs = <<>>
  /\ provider \in ProviderNames \cap KnownProviders
  /\ prelude_text = ""
  /\ prelude_hash = <<>>
  /\ state_file = <<>>
  /\ ai_logs = [n \in {} |-> <<>>]
  /\ files = [q \in {} |-> ""]
  /\ reports = <<>>
  /\ clock = 0
  /\ nops = 0
  /\ limit = budget
  /\ dirs = StateDirs
  /\ rules = DEFAULT_RULES
  /\ last = NoLast
  /\ recov = "none"
  /\ digests = {}

Init == InitWith(MaxOps)

\* get_hash mixing the number of calls made so far into the hash
get_hash_per_call(stored, specs) ==
  <<"sha256/16", generate(specs), FmtInt(nops)>>

\* PreludeGenerator.get_hash: the stored hash, generated first if empty
get_hash(stored, specs) ==
  IF stored = <<>> THEN compute_hash(generate(specs)) ELSE stored

\* a plan dictionary that records no hash
PlanDict_unhashed(user_goal, spec_hash, response, c) ==
  [goal |-> Concat(user_goal), spec_hash |-> <<>>,
   provider |-> get_name(provider), generated_at |-> Concat(timestamp(c)),
   rationale |-> "See response text",
   steps |-> <<[description |-> "See response text", affected_files |-> <<>>]>>,
   risks |-> <<"Verify spec compliance before applying">>,
   response_text |-> response]

\* the plan dictionary of AIOrchestrator.plan
PlanDict(user_goal, spec_hash, response, c) ==
  [goal |-> Concat(user_goal), spec_hash |-> spec_hash,
   provider |-> get_name(provider), generated_at |-> Concat(timestamp(c)),
   rationale |-> "See response text",
   steps |-> <<[description |-> "See response text", affected_files |-> <<>>]>>,
   risks |-> <<"Verify spec compliance before applying">>,
   response_text |-> response]

\* SpecLoader(spec_dir) and AIOrchestrator(loader, name): a new loader and
\* orchestrator replace the live ones; an unknown provider name raises in
\* get_provider, before anything is set up, and nothing is replaced
NewInvocation ==
  \E name \in ProviderNames :
    /\ nops < limit
    /\ IF name \in KnownProviders
       THEN /\ provider' = name
            /\ loader_specs' = <<>>
            /\ prelude_text' = ""
            /\ prelude_hash' = <<>>
            /\ dirs' = dirs \cup StateDirs
            /\ rules' = DEFAULT_RULES
            /\ last' = [NoLast EXCEPT !.op = "init", !.outcome = "ok"]
       ELSE /\ last' = [NoLast EXCEPT !.op = "init", !.outcome = "config_error"]
            /\ UNCHANGED <<provider, loader_specs, prelude_text, prelude_hash, dirs,
                           rules>>
    /\ UNCHANGED <<spec_files, target, state_file, ai_logs, files, reports,
                   clock, nops, limit, recov, digests>>

\* the user edits the specification files: they now hold another of the
\* specifications of the set
EditSpecTo(specifications) ==
  \E s \in specifications \ {spec_files} :
    /\ nops < limit
    /\ spec_files' = s
    /\ recov' = "none"
    /\ last' = NoLast
    /\ UNCHANGED <<target, loader_specs, provider, prelude_text, prelude_hash,
                   state_file, ai_logs, files, reports, clock, nops, limit, dirs, rules, digests>>

EditSpec == EditSpecTo(Specs)

\* the generated workshop below out/instructor changes
SetTargetTo(targets) ==
  \E t \in targets \ {target} :
    /\ nops < limit
    /\ target' = t
    /\ last' = NoLast
    /\ UNCHANGED <<spec_files, loader_specs, provider, prelude_text, prelude_hash,
                   state_file, ai_logs, files, reports, clock, nops, limit, dirs, rules,
                   recov, digests>>

SetTarget == SetTargetTo(Targets)

\* time passes
Tick ==
  /\ nops < limit
  /\ clock < MaxClock
  /\ clock' = clock + 1
  /\ last' = NoLast
  /\ UNCHANGED <<spec_files, target, loader_specs, provider, prelude_text,
                 prelude_hash, state_file, ai_logs, files, reports, nops,
                 limit, dirs, rules, recov, digests>>

\* plan or apply ends in loader.load() or in generate(): a missing file or
\* a missing key raises before anything is computed or written; the loader
\* keeps what it loaded
ConfigError(op, user_goal, load_failed) ==
  /\ loader_specs' = IF load_failed THEN loader_specs
                     ELSE <<load(loader_specs, spec_files)>>
  /\ last' = [NoLast EXCEPT !.op = op, !.outcome = "config_error",
                            !.goal = user_goal, !.prior_state = state_file,
                            !.trace = <<"generate">>]
  /\ UNCHANGED <<prelude_text, prelude_hash, digests, ai_logs, recov>>

\* plan persisting the hash it computed
PlanFrame_persisting ==
  /\ state_file' = _update_state(prelude_hash', get_name(provider), <<>>, clock)
  /\ UNCHANGED <<spec_files, target, provider, files, reports, clock, limit, dirs, rules>>

\* what plan leaves alone: the specification, the target, the persisted
\* state, the ChangeSet files, the reports
PlanFrame ==
  UNCHANGED <<spec_files, target, provider, state_file, files, reports, clock,
              limit, dirs, rules>>

\* AIOrchestrator.plan, the goal drawn from goals
PlanOn(goals) ==
  /\ nops < limit
  /\ \E user_goal \in goals, response \in complete(provider) :
       LET load_failed == LoadRaises(loader_specs, spec_files)
           specs == load(loader_specs, spec_files)
           text == Preludes[specs]
           spec_hash == get_hash(compute_hash(text), specs)
           plan == PlanDict(user_goal, spec_hash, response, clock)
           failed == Raised(response)
       IN IF load_failed \/ GenerateRaises(specs)
          THEN ConfigError("plan", user_goal, load_failed)
          ELSE
          /\ loader_specs' = <<specs>>
          /\ prelude_text' = text
          /\ prelude_hash' = compute_hash(text)
          /\ digests' = digests \cup {[specs |-> specs, text |-> text, hash |-> spec_hash,
                                        clock |-> clock, goal |-> user_goal]}
          /\ ai_logs' = IF failed THEN ai_logs
                        ELSE _log_operation(ai_logs, clock, "plan", user_goal,
                                            text, response, plan)
          /\ last' = [NoLast EXCEPT
                        !.op = "plan",
                        !.outcome = IF failed THEN "backend_error" ELSE "ok",
                        !.goal = user_goal, !.spec_hash = spec_hash,
                        !.provider = get_name(provider),
                        !.prior_state = state_file,
                        !.log_dirs = IF failed THEN <<>>
                                     ELSE <<LogDirName(clock, user_goal)>>,
                        !.trace = IF failed THEN <<"generate", "complete">>
                                  ELSE <<"generate", "complete", "log:plan">>]
          /\ recov' = RecovAfter("plan", IF failed THEN "backend_error" ELSE "ok")
  /\ nops' = nops + 1
  /\ PlanFrame

Plan == PlanOn(Goals)

\* the trace of the first n entries of changes being processed
RECURSIVE WriteTrace(_, _)
WriteTrace(changes, n) ==
  IF n = 0 THEN <<>>
  ELSE WriteTrace(changes, n - 1)
       \o (IF changes[n].action = "create"
           THEN <<"write:" \o changes[n].path>> ELSE <<>>)

\* apply writing the ChangeSet before it evaluates the policy
ApplySteps_write_first(blocked, changes, written) ==
  <<"generate", "complete", "log:plan", "verify", "simulate">>
  \o (IF blocked THEN <<>> ELSE WriteTrace(changes, written))
  \o <<"policy", "filter", "gate">>
  \o (IF blocked \/ written = Len(changes)
      THEN <<"report", "log:apply", "state">> ELSE <<>>)

\* the steps of apply in the order of its statements, once the plan is
\* made and the stability check has passed: the policy evaluation, the
\* allow-list filter and the blocking test, then the writes of the first
\* `written` ChangeSet entries unless blocked, then, if no write raised,
\* the report, the audit entry and the state update
ApplySteps(blocked, changes, written) ==
  <<"generate", "complete", "log:plan", "verify", "simulate",
    "policy", "filter", "gate">>
  \o (IF blocked THEN <<>> ELSE WriteTrace(changes, written))
  \o (IF blocked \/ written = Len(changes)
      THEN <<"report", "log:apply", "state">> ELSE <<>>)

\* the number of error-severity violations, for the result message
RECURSIVE CountErrors(_)
CountErrors(violations) ==
  IF violations = <<>> THEN 0
  ELSE (IF Head(violations).severity = "error" THEN 1 ELSE 0)
       + CountErrors(Tail(violations))

\* AIOrchestrator.apply on the ChangeSet `changes`.  later is the clock
\* value once the plan is logged; fail_at = k > 0 is an I/O error raised
\* by the write of entry k, fail_at = 0 is no I/O error
ApplyOp(user_goal, allow_violations, changes, response, later, fail_at) ==
  LET load_failed == LoadRaises(loader_specs, spec_files)
      specs == load(loader_specs, spec_files)
      text == Preludes[specs]
      spec_hash == get_hash(compute_hash(text), specs)
      plan == PlanDict(user_goal, spec_hash, response, clock)
      backend_failed == Raised(response)
      planned_logs == _log_operation(ai_logs, clock, "plan", user_goal, text,
                                     response, plan)
      unstable == StabilityViolated(state_file, spec_hash)
  IN IF load_failed \/ GenerateRaises(specs)
     THEN /\ fail_at = 0
          /\ ConfigError("apply", user_goal, load_failed)
          /\ nops' = nops + 1
          /\ UNCHANGED <<spec_files, target, provider, limit, dirs, rules, files,
                         reports, state_file, clock>>
     ELSE
     \* the locals of apply, each bound once to its value
     \E gate_dir \in {GateTarget(target, changes)} :
     \E run \in {GateRun(specs, IF gate_dir.exists THEN <<gate_dir>> ELSE <<>>)} :
     \E raw \in {run.violations} :
     \E violations \in {IF allow_violations # <<>>
                         THEN filter_allowed(raw, allow_violations) ELSE raw} :
     \E blocked \in {has_errors(violations)} :
     LET message == IF ~blocked
                    THEN "Applied " \o FmtInt(Len(changes)) \o " changes successfully"
                    ELSE "Blocked by " \o FmtInt(CountErrors(violations)) \o " policy errors"
         result == [success |-> ~blocked, goal |-> Concat(user_goal),
                    spec_hash |-> spec_hash, provider |-> get_name(provider),
                    applied_at |-> Concat(timestamp(later)), changes |-> changes,
                    violations |-> violations, message |-> message]
         rule_raised == run.raised
         io_failed == ~blocked /\ ~rule_raised /\ fail_at > 0
     IN
     \E outcome \in {IF backend_failed THEN "backend_error"
                      ELSE IF unstable THEN "stability_error"
                      ELSE IF rule_raised THEN "rule_error"
                      ELSE IF io_failed THEN "io_error"
                      ELSE "ok"} :
     /\ fail_at > 0 => changes[fail_at].action = "create"
     /\ loader_specs' = <<specs>>
     /\ prelude_text' = text
     /\ prelude_hash' = compute_hash(text)
     /\ digests' = digests \cup {[specs |-> specs, text |-> text, hash |-> spec_hash,
                                   clock |-> clock, goal |-> user_goal]}
     /\ ai_logs' =
          IF backend_failed THEN ai_logs
          ELSE IF unstable \/ rule_raised \/ io_failed THEN planned_logs
          ELSE _log_operation(planned_logs, later, "apply", user_goal, "",
                              message, result)
     /\ files' =
          IF backend_failed \/ unstable \/ rule_raised \/ blocked THEN files
          ELSE IF io_failed THEN _apply_changes(files, changes, fail_at - 1)
          ELSE _apply_changes(files, changes, Len(changes))
     /\ target' =
          IF backend_failed \/ unstable \/ rule_raised \/ blocked THEN target
          ELSE IF io_failed THEN WriteTarget(target, changes, fail_at - 1)
          ELSE WriteTarget(target, changes, Len(changes))
     /\ reports' = IF outcome = "ok" THEN generate_reports(violations) ELSE reports
     /\ state_file' =
          IF outcome = "ok"
          THEN _update_state(spec_hash, get_name(provider), user_goal, later)
          ELSE state_file
     /\ clock' = IF outcome = "ok" THEN later ELSE clock
     /\ last' = [NoLast EXCEPT
                   !.op = "apply", !.outcome = outcome, !.goal = user_goal,
                   !.allow = allow_violations, !.spec_hash = spec_hash,
                   !.provider = get_name(provider),
                   !.success = (outcome = "ok" /\ ~blocked),
                   !.prior_state = state_file,
                   !.raw_violations = IF outcome \in {"ok", "io_error"} THEN raw ELSE <<>>,
                   !.violations = IF outcome \in {"ok", "io_error"} THEN violations ELSE <<>>,
                   !.changes = IF outcome \in {"ok", "io_error"} THEN changes ELSE <<>>,
                   !.message = IF outcome = "ok" THEN message ELSE "",
                   !.log_dirs =
                      IF backend_failed THEN <<>>
                      ELSE IF outcome = "ok"
                        THEN <<LogDirName(clock, user_goal), LogDirName(later, user_goal)>>
                      ELSE <<LogDirName(clock, user_goal)>>,
                   !.trace =
                      IF backend_failed THEN <<"generate", "complete">>
                      ELSE IF unstable
                        THEN <<"generate", "complete", "log:plan", "verify">>
                      ELSE IF rule_raised
                        THEN <<"generate", "complete", "log:plan", "verify",
                               "simulate", "policy">>
                      ELSE ApplySteps(blocked, changes,
                                      IF io_failed THEN fail_at - 1 ELSE Len(changes)),
                   !.ran = IF backend_failed \/ unstable THEN <<>> ELSE run.ran]
     /\ recov' = RecovAfter("apply", outcome)
     /\ nops' = nops + 1
     /\ UNCHANGED <<spec_files, provider, limit, dirs, rules>>

\* AIOrchestrator.apply as the code runs it: the ChangeSet is the one
\* _simulate_changes returns
ApplyOn(goals, allow_lists) ==
  /\ nops < limit
  /\ \E user_goal \in goals, allow_violations \in allow_lists,
        response \in complete(provider), later \in {clock, clock + 1} :
       /\ later <= MaxClock
       /\ \E fail_at \in 0..Len(_simulate_changes(user_goal)) :
            ApplyOp(user_goal, allow_violations, _simulate_changes(user_goal),
                    response, later, fail_at)

Apply == ApplyOn(Goals, AllowLists)

\* the goal of the runs that follow one goal
RecoveryGoal == <<"A","d","d"," ","l","a","b">>

\* check writing an audit entry of its own
CheckFrame_logging ==
  /\ ai_logs' = _log_operation(ai_logs, clock, "check", <<>>, "", "", <<>>)
  /\ UNCHANGED <<spec_files, target, provider, prelude_text, prelude_hash,
                 state_file, files, clock, limit, dirs, rules, recov, digests>>

\* what check leaves alone: everything on disk but the reports
CheckFrame ==
  UNCHANGED <<spec_files, target, provider, prelude_text, prelude_hash,
              state_file, ai_logs, files, clock, limit, dirs, rules, recov, digests>>

\* AIOrchestrator.check; target_dirs are the arguments a caller may pass
CheckOn(target_dirs) ==
  /\ nops < limit
  /\ \E target_dir \in target_dirs :
       \E run \in {EngineRun(loader_specs, target_dir)} :
       LET violations == run.violations
       IN /\ loader_specs' = run.cache
          /\ reports' = IF run.raised THEN reports ELSE generate_reports(violations)
          /\ last' = [NoLast EXCEPT
                        !.op = "check",
                        !.outcome = IF run.raised THEN "rule_error" ELSE "ok",
                        !.raw_violations = violations,
                        !.violations = violations,
                        !.prior_state = state_file,
                        !.trace = IF run.raised THEN <<"policy">>
                                  ELSE <<"policy", "report">>,
                        !.ran = run.ran]
  /\ nops' = nops + 1
  /\ CheckFrame

Check == CheckOn({<<>>, <<target>>})

\* Path(d).name of each deliverable
RECURSIVE Names(_)
Names(ds) ==
  IF ds = <<>> THEN {} ELSE {Head(ds)[Len(Head(ds))]} \cup Names(Tail(ds))

RECURSIVE PathStrs(_)
PathStrs(ds) == IF ds = <<>> THEN {} ELSE {PathStr(Head(ds))} \cup PathStrs(Tail(ds))

\* AIOrchestrator.explain: the explanations of the module loop
RECURSIVE ExplainModules(_, _)
ExplainModules(modules, path) ==
  IF modules = <<>> THEN <<>>
  ELSE (IF \/ PathStr(path) \in PathStrs(Get(Head(modules), "deliverables", <<>>))
           \/ path[Len(path)] \in Names(Get(Head(modules), "deliverables", <<>>))
        THEN <<"- Deliverable for module '" \o Concat(Head(modules).id)
               \o "' (modules.yml#" \o Concat(Head(modules).id) \o ")\n"
               \o "  Objective: " \o Head(modules).objective>>
        ELSE <<>>)
       \o ExplainModules(Tail(modules), path)

explain(specs, path) ==
  LET explanations ==
        ExplainModules(get_modules(specs), path)
        \o (IF \E k \in 1..Len(path) : path[k] = "instructor"
            THEN <<"- Part of instructor-only materials (not for students)">>
            ELSE <<>>)
        \o (IF \E k \in 1..Len(path) : path[k] = "reference"
            THEN <<"- Reference solution (instructor access only)">> ELSE <<>>)
        \o (IF \E k \in 1..Len(path) : path[k] = "labs"
            THEN <<"- Student-facing lab exercise">> ELSE <<>>)
  IN IF explanations = <<>>
     THEN "File '" \o PathStr(path) \o "' is not directly referenced in specifications."
     ELSE "# File: " \o PathStr(path) \o "\n\n## Spec References\n\n"
          \o JoinLines(explanations)

ExplainPaths ==
  { <<"labs", "setup", "README.md">>, <<"unrelated", "README.md">>,
    <<"unrelated", "file.txt">>, <<"instructor", "notes.md">> }

\* AIOrchestrator.explain
Explain ==
  /\ nops < limit
  /\ \E path \in ExplainPaths :
       LET specs == load(loader_specs, spec_files)
       IN /\ loader_specs' = <<specs>>
          /\ last' = [NoLast EXCEPT !.op = "explain", !.outcome = "ok",
                                    !.goal = path,
                                    !.message = explain(specs, path)]
  /\ nops' = nops + 1
  /\ UNCHANGED <<spec_files, target, provider, prelude_text, prelude_hash,
                 state_file, ai_logs, files, reports, clock, limit, dirs, rules, recov,
                 digests>>

\* ChangeSets handed to apply in place of the stub's: two files staged,
\* as create or as update actions
StagedA(action) ==
  [path |-> "labs/a.md", action |-> action, description |-> "a", content |-> "A"]
StagedB(action) ==
  [path |-> "labs/b.md", action |-> action, description |-> "b", content |-> "B"]
StagedChangeSets ==
  { <<StagedA("create"), StagedB("create")>>,
    <<StagedA("create"), StagedB("update")>>,
    <<StagedA("update"), StagedB("update")>> }

\* AIOrchestrator.apply with the ChangeSet supplied by the collaborator that
\* stands where _simulate_changes does
ApplyStaged ==
  /\ nops < limit
  /\ \E user_goal \in Goals, allow_violations \in AllowLists,
        response \in complete(provider), changes \in StagedChangeSets :
       \E fail_at \in 0..Len(changes) :
         ApplyOp(user_goal, allow_violations, changes, response, clock, fail_at)

Next ==
  \/ NewInvocation
  \/ EditSpec
  \/ SetTarget
  \/ Tick
  \/ Plan
  \/ Apply
  \/ Check
  \/ Explain

Spec == Init /\ [][Next]_vars

\* apply on staged ChangeSets, over every specification and target
NextStaged ==
  \/ EditSpec
  \/ SetTarget
  \/ ApplyStaged

SpecStaged == Init /\ [][NextStaged]_vars

\* plans over a modules.yml whose one module is edited field by field
EditModule == EditSpecTo(ModuleSpecs)

InitModules ==
  /\ spec_files \in ModuleSpecs
  /\ target = NoDir
  /\ loader_specs = <<>>
  /\ provider \in ProviderNames \cap KnownProviders
  /\ prelude_text = ""
  /\ prelude_hash = <<>>
  /\ state_file = <<>>
  /\ ai_logs = [n \in {} |-> <<>>]
  /\ files = [q \in {} |-> ""]
  /\ reports = <<>>
  /\ clock = 0
  /\ nops = 0
  /\ limit = MaxOps
  /\ dirs = StateDirs
  /\ rules = DEFAULT_RULES
  /\ last = NoLast
  /\ recov = "none"
  /\ digests = {}

NextModules ==
  \/ EditModule
  \/ NewInvocation
  \/ PlanOn({RecoveryGoal})

SpecModules == InitModules /\ [][NextModules]_vars

\* applies over a specification edited outside its modules
EditField == EditSpecTo(FieldSpecs)

NextFields ==
  \/ EditField
  \/ NewInvocation
  \/ ApplyOn({RecoveryGoal}, {<<>>})

SpecFields == Init /\ [][NextFields]_vars

\* a checkout whose specification lacks a required part, from before the
\* first orchestrator is constructed
InitConfig ==
  /\ spec_files \in DefectiveSpecs
  /\ target = NoDir
  /\ loader_specs = <<>>
  /\ provider = "none"
  /\ prelude_text = ""
  /\ prelude_hash = <<>>
  /\ state_file = <<>>
  /\ ai_logs = [n \in {} |-> <<>>]
  /\ files = [q \in {} |-> ""]
  /\ reports = <<>>
  /\ clock = 0
  /\ nops = 0
  /\ limit = MaxOps
  /\ dirs = {}
  /\ rules = <<>>
  /\ last = NoLast
  /\ recov = "none"
  /\ digests = {}

EditDefect == EditSpecTo(DefectiveSpecs)

\* plan and apply, once an orchestrator is constructed
PlanConstructed == provider \in KnownProviders /\ Plan

ApplyConstructed == provider \in KnownProviders /\ ApplyOn(Goals, {<<>>})

NextConfig ==
  \/ NewInvocation
  \/ EditDefect
  \/ PlanConstructed
  \/ ApplyConstructed

SpecConfig == InitConfig /\ [][NextConfig]_vars

\* plans and applies that fill the audit log: two goals with one slug, a
\* goal with another slug, with and without the clock moving in between
AuditGoals == Goals \cup { <<"F","i","x"," ","t","y","p","o","!">> }

NextAudit ==
  \/ Tick
  \/ PlanOn(AuditGoals)
  \/ ApplyOn(AuditGoals, {<<>>})

SpecAudit == InitWith(AuditOps) /\ [][NextAudit]_vars

\* one goal, planned and applied again and again while the specification
\* is edited between invocations
NextRecovery ==
  \/ EditSpec
  \/ NewInvocation
  \/ PlanOn({RecoveryGoal})
  \/ ApplyOn({RecoveryGoal}, {<<>>})

SpecRecovery == InitWith(RecoveryOps) /\ [][NextRecovery]_vars

\* every operation, in a checkout whose specification and target directory
\* nobody touches
NextUnchanged ==
  \/ NewInvocation
  \/ Tick
  \/ Plan
  \/ Apply
  \/ Check
  \/ Explain

SpecUnchanged == InitWith(UnchangedOps) /\ [][NextUnchanged]_vars

\* the check scenario: a valid specification, a target directory that
\* exists and is empty, the scenario's paths created one by one, and check
\* called on the target directory in between
InitScenario ==
  /\ spec_files \in ScenarioSpecs
  /\ target = Created({})
  /\ loader_specs = <<>>
  /\ provider \in ProviderNames \cap KnownProviders
  /\ prelude_text = ""
  /\ prelude_hash = <<>>
  /\ state_file = <<>>
  /\ ai_logs = [n \in {} |-> <<>>]
  /\ files = [q \in {} |-> ""]
  /\ reports = <<>>
  /\ clock = 0
  /\ nops = 0
  /\ limit = MaxOps
  /\ dirs = StateDirs
  /\ rules = DEFAULT_RULES
  /\ last = NoLast
  /\ recov = "none"
  /\ digests = {}

CreatePath ==
  \E ps \in SUBSET ScenarioPaths, parts \in ScenarioPaths :
    /\ parts \notin ps
    /\ target = Created(ps)
    /\ target' = Created(ps \cup {parts})
    /\ UNCHANGED <<spec_files, loader_specs, provider, prelude_text, prelude_hash,
                   state_file, ai_logs, files, reports, clock, nops, limit, dirs, rules,
                   last, recov, digests>>

CheckTarget == CheckOn({<<target>>})

NextScenario ==
  \/ CreatePath
  \/ CheckTarget

SpecScenario == InitScenario /\ [][NextScenario]_vars

\* the engine's rule list is replaced, the specification files and the
\* target directory change, and check runs the engine in between
SetRulesTo(lists) ==
  \E rs \in lists \ {rules} :
    /\ nops < limit
    /\ rules' = rs
    /\ last' = NoLast
    /\ UNCHANGED <<spec_files, target, loader_specs, provider, prelude_text,
                   prelude_hash, state_file, ai_logs, files, reports, clock,
                   nops, limit, recov, digests, dirs>>

SetRules == SetRulesTo(RuleLists)

EditEngineSpec == EditSpecTo(EngineSpecs)

SetEngineTarget == SetTargetTo(EngineTargets)

InitEngine ==
  /\ spec_files \in EngineSpecs
  /\ target \in EngineTargets
  /\ loader_specs = <<>>
  /\ provider \in ProviderNames \cap KnownProviders
  /\ prelude_text = ""
  /\ prelude_hash = <<>>
  /\ state_file = <<>>
  /\ ai_logs = [n \in {} |-> <<>>]
  /\ files = [q \in {} |-> ""]
  /\ reports = <<>>
  /\ clock = 0
  /\ nops = 0
  /\ limit = MaxOps
  /\ dirs = StateDirs
  /\ rules = DEFAULT_RULES
  /\ last = NoLast
  /\ recov = "none"
  /\ digests = {}

NextEngine ==
  \/ SetRules
  \/ EditEngineSpec
  \/ SetEngineTarget
  \/ CheckTarget

SpecEngine == InitEngine /\ [][NextEngine]_vars

\* a constructed orchestrator in a checkout whose specification is one of
\* specifications and whose target directory is one of targets
InitFrom(specifications, targets, budget) ==
  /\ spec_files \in specifications
  /\ target \in targets
  /\ loader_specs = <<>>
  /\ provider \in ProviderNames \cap KnownProviders
  /\ prelude_text = ""
  /\ prelude_hash = <<>>
  /\ state_file = <<>>
  /\ ai_logs = [n \in {} |-> <<>>]
  /\ files = [q \in {} |-> ""]
  /\ reports = <<>>
  /\ clock = 0
  /\ nops = 0
  /\ limit = budget
  /\ dirs = StateDirs
  /\ rules = DEFAULT_RULES
  /\ last = NoLast
  /\ recov = "none"
  /\ digests = {}

\* target directories with and without a file a rule cannot read; the
\* engine's rule list is replaced, and check and apply run the engine
RaiseTargets == {PartDir, SlideDir, BinaryDir}

\* the default list, in reverse, without its first rule, and without the
\* rule that reads the files below labs/
FewRuleLists ==
  {DEFAULT_RULES, Reverse(DEFAULT_RULES), Remove(DEFAULT_RULES, 1),
   Remove(DEFAULT_RULES, 5)}

SetFewRules == SetRulesTo(FewRuleLists)

ApplyPlain == ApplyOn({RecoveryGoal}, {<<>>})

NextRules ==
  \/ NewInvocation
  \/ SetFewRules
  \/ CheckTarget
  \/ ApplyPlain

SpecRules == InitFrom(Specs, RaiseTargets, MaxOps) /\ [][NextRules]_vars

\* modules.yml is edited, and check runs without generated output
EditCompleteness == EditSpecTo(CompletenessSpecs)

NextCompleteness ==
  \/ EditCompleteness
  \/ NewInvocation
  \/ CheckTarget

SpecCompleteness ==
  InitFrom(CompletenessSpecs, {NoDir}, MaxOps) /\ [][NextCompleteness]_vars

\* the slide file below instructor/slides changes, and check scans it
SetDensityTarget == SetTargetTo(DensityTargets)

NextDensity ==
  \/ SetDensityTarget
  \/ CheckTarget

SpecDensity == InitFrom({BaseSpec}, DensityTargets, MaxOps) /\ [][NextDensity]_vars

(***************************************************************************)
(* Properties.                                                             *)
(***************************************************************************)
\* the step just taken is a call of operation op
Called(op) == nops' = nops + 1 /\ last'.op = op

\* the log directories that differ between two states of ai_logs
Rewritten(before, after) ==
  {n \in DOMAIN after : n \notin DOMAIN before \/ before[n] # after[n]}

\* C1 as the specification states it: an apply that meets a persisted hash
\* H1 different from the freshly computed H2 raises the stability error and
\* writes no file at all.
C1_NoFileAtAll ==
  [][ (Called("apply") /\ last'.outcome = "stability_error")
      => /\ files' = files
         /\ state_file' = state_file
         /\ reports' = reports
         /\ ai_logs' = ai_logs ]_vars

\* C1 amended: when the backend has answered, apply raises the stability
\* error exactly when a persisted state exists whose hash differs from the
\* freshly computed one; that call writes no ChangeSet entry, no persisted
\* state, no report and no audit entry of kind apply: the only thing it
\* writes is the audit entry of its internal plan.
C1_StabilityGate ==
  [][ (Called("apply") /\ last'.outcome # "backend_error")
      => /\ (last'.outcome = "stability_error")
              <=> (state_file # <<>> /\ state_file[1].spec_hash # last'.spec_hash)
         /\ last'.outcome = "stability_error"
              => /\ files' = files
                 /\ state_file' = state_file
                 /\ reports' = reports
                 /\ Rewritten(ai_logs, ai_logs') \subseteq {last'.log_dirs[1]}
                 /\ Len(last'.log_dirs) = 1
                 /\ ai_logs'[last'.log_dirs[1]].prompt_json.operation = "plan" ]_vars

\* an apply has raised the stability error: the persisted hash differs from
\* the one it computed
C1_Witness ==
  /\ last.op = "apply"
  /\ last.outcome = "stability_error"
  /\ state_file # <<>>
  /\ state_file[1].spec_hash # last.spec_hash
  /\ last.log_dirs # <<>>

\* the content _apply_changes writes for a ChangeSet entry
ContentOf(change) ==
  Get(change, "content", "# Generated content\n\nGoal: " \o change.description)

\* C2: after an apply that returns, every one of the N ChangeSet entries
\* (create or update) has been written if no error-severity violation
\* survived the allow-list, and none has been written otherwise.
C2_AllOrNothing ==
  [][ (Called("apply") /\ last'.outcome = "ok")
      => IF last'.success
         THEN \A k \in 1..Len(last'.changes) :
                /\ last'.changes[k].path \in DOMAIN files'
                /\ files'[last'.changes[k].path] = ContentOf(last'.changes[k])
         ELSE files' = files ]_vars

\* the violations whose rule id is not in the list allowed, in order
Unlisted(violations, allowed) ==
  SelectSeq(violations,
            LAMBDA v : ~ \E j \in 1..Len(allowed) : allowed[j] = v.rule_id)

Written(fs, changes) ==
  \A k \in 1..Len(changes) :
    /\ changes[k].path \in DOMAIN fs
    /\ fs[changes[k].path] = ContentOf(changes[k])

\* C3: the violations apply reports are exactly the engine's violations
\* whose rule id is not in the allow-list, in their original order and
\* unmodified; and when every error-severity violation has a rule id in the
\* allow-list, the write step proceeds.
C3_AllowListSubtraction ==
  (last.op = "apply" /\ last.outcome \in {"ok", "io_error"})
  => /\ last.violations = Unlisted(last.raw_violations, last.allow)
     /\ (\A k \in 1..Len(last.raw_violations) :
           last.raw_violations[k].severity = "error"
           => \E j \in 1..Len(last.allow) :
                last.allow[j] = last.raw_violations[k].rule_id)
        => \/ last.outcome = "io_error"
           \/ last.success /\ Written(files, last.changes)

\* an apply whose only error is allow-listed: it succeeds, and the
\* violations of the other rules are still reported
C3_Witness ==
  /\ last.op = "apply" /\ last.outcome = "ok" /\ last.success
  /\ last.allow # <<>>
  /\ has_errors(last.raw_violations)
  /\ last.violations # <<>>
  /\ Len(last.violations) < Len(last.raw_violations)
  /\ Written(files, last.changes)

\* C4: an apply that returns has success=true and has written its ChangeSet
\* iff no error-severity violation is left after the allow-list; otherwise
\* it writes no ChangeSet file; every warning not in the allow-list is in
\* the returned list.
C4_SeverityGate ==
  [][ (Called("apply") /\ last'.outcome \in {"ok", "io_error"})
      => LET errors == \E k \in 1..Len(last'.violations) :
                          last'.violations[k].severity = "error"
         IN /\ last'.outcome = "io_error" => ~errors
            /\ last'.outcome = "ok"
                 => /\ last'.success <=> ~errors
                    /\ ~errors => Written(files', last'.changes)
                    /\ errors => files' = files
            /\ \A k \in 1..Len(last'.raw_violations) :
                 (/\ last'.raw_violations[k].severity = "warn"
                  /\ ~ \E j \in 1..Len(last'.allow) :
                         last'.allow[j] = last'.raw_violations[k].rule_id)
                 => \E i \in 1..Len(last'.violations) :
                      last'.violations[i] = last'.raw_violations[k] ]_vars

\* an apply with several warnings and no error, nothing allowed: it writes
C4_Witness ==
  /\ last.op = "apply" /\ last.outcome = "ok" /\ last.success
  /\ last.allow = <<>>
  /\ Len(last.violations) >= 2
  /\ \A k \in 1..Len(last.violations) : last.violations[k].severity = "warn"
  /\ Written(files, last.changes)

\* C5: an apply that is blocked by an error-severity violation leaves the
\* persisted state exactly as it was before the call.
C5_BlockedKeepsState ==
  [][ (Called("apply") /\ last'.outcome = "ok" /\ ~last'.success)
      => state_file' = state_file ]_vars

C7_PureRead ==
  [][ Called("check")
      => UNCHANGED <<state_file, ai_logs, files, reports>> ]_vars

\* C7: check leaves the persisted state, the audit log and the ChangeSet
\* files untouched; the one thing it writes is the compliance report,
\* generated anew from the violations it found.
C7_CheckFrameEffect ==
  [][ Called("check")
      => /\ UNCHANGED <<state_file, ai_logs, files>>
         /\ reports' = generate_reports(last'.violations) ]_vars

\* a check after an apply, the state and the audit log being there
C7_Witness ==
  /\ last.op = "check" /\ last.outcome = "ok"
  /\ state_file # <<>> /\ DOMAIN ai_logs # {}
  /\ reports = generate_reports(last.violations)
  /\ last.violations # <<>>

\* C8: once apply has failed with a stability error, a plan on the current
\* specification followed by an apply, the specification unchanged between
\* the two, passes the stability check.
C8_RecoveryByReplanning ==
  [][ (Called("apply") /\ recov = "replanned" /\ last'.outcome # "backend_error")
      => last'.outcome # "stability_error" ]_vars

\* the hashes computed so far
Hashes == {d.hash : d \in digests}

\* C9: over a specification that never changes, every plan and every apply
\* reports one and the same digest hash, the persisted state holds that
\* hash, and no apply fails with a stability error.
C9_StableUnchanged ==
  /\ last.outcome # "stability_error"
  /\ Cardinality(Hashes) <= 1
  /\ last.op \in {"plan", "apply"} => last.spec_hash \in Hashes
  /\ state_file # <<>> => state_file[1].spec_hash \in Hashes
  /\ \A n \in DOMAIN ai_logs : ai_logs[n].plan_json.spec_hash \in Hashes

\* an apply passing the stability check against a state an earlier apply
\* persisted, after digests built at different times or for different goals
C9_Witness ==
  /\ last.op = "apply" /\ last.outcome = "ok"
  /\ last.prior_state # <<>>
  /\ last.prior_state[1].spec_hash = last.spec_hash
  /\ Cardinality(digests) >= 3

C11_ModuleSensitivity ==
  \A d1, d2 \in digests :
    OneModuleFieldApart(d1.specs, d2.specs)
    => d1.text # d2.text /\ d1.hash # d2.hash

\* C12: two different specifications have different digest texts and
\* hashes, and an apply on a specification other than the one whose hash
\* the persisted state records fails with the stability error.
C12_WholeSensitivity ==
  /\ [](\A d1, d2 \in digests :
          d1.specs # d2.specs => d1.text # d2.text /\ d1.hash # d2.hash)
  /\ [][ (Called("apply") /\ last'.outcome # "backend_error" /\ state_file # <<>>)
         => \A d \in digests :
              (d.hash = state_file[1].spec_hash /\ d.specs # loader_specs'[1])
              => last'.outcome = "stability_error" ]_vars

\* the elements of a sequence
Range(seq) == {seq[k] : k \in 1..Len(seq)}

\* every audit entry there was is still there, unaltered
EntriesKept == \A n \in DOMAIN ai_logs : n \in DOMAIN ai_logs' /\ ai_logs'[n] = ai_logs[n]

\* C13 as stated: every record call of a plan or an apply creates an entry
\* under a name no entry had, and alters no entry that exists, also when
\* timestamps and slugs coincide.
C13_AlwaysNewEntry ==
  [][ (Called("plan") \/ Called("apply"))
      => /\ EntriesKept
         /\ Cardinality(DOMAIN ai_logs') = Cardinality(DOMAIN ai_logs) + Len(last'.log_dirs) ]_vars

\* the slug of a goal in a log directory name
Slug(goal) == safe_filename(SubSeq(goal, 1, Min(SlugLen, Len(goal))))

\* C13: a record call writes the entry named by its timestamp and the slug
\* of its goal; two names are equal exactly when both the timestamps and the
\* slugs are.  Entries under other names are never altered, and when the
\* names of the call's records are new and distinct, each record is a new
\* entry and every existing entry is kept unaltered.
C13_AppendOnlyByName ==
  [][ (Called("plan") \/ Called("apply"))
      => /\ DOMAIN ai_logs' = DOMAIN ai_logs \cup Range(last'.log_dirs)
         /\ \A n \in DOMAIN ai_logs \ Range(last'.log_dirs) : ai_logs'[n] = ai_logs[n]
         /\ (/\ Range(last'.log_dirs) \cap DOMAIN ai_logs = {}
             /\ Cardinality(Range(last'.log_dirs)) = Len(last'.log_dirs))
            => /\ EntriesKept
               /\ Cardinality(DOMAIN ai_logs')
                    = Cardinality(DOMAIN ai_logs) + Len(last'.log_dirs)
         /\ \A c1, c2 \in 0..MaxClock, g1, g2 \in AuditGoals :
              (LogDirName(c1, g1) = LogDirName(c2, g2))
              <=> (c1 = c2 /\ Slug(g1) = Slug(g2)) ]_vars

\* an apply whose two records were new entries beside an older one
C13_Witness ==
  /\ last.op = "apply" /\ last.outcome = "ok"
  /\ Len(last.log_dirs) = 2 /\ last.log_dirs[1] # last.log_dirs[2]
  /\ Cardinality(DOMAIN ai_logs) >= 3

\* C14: every audit entry, of a plan or of an apply, holds the full digest
\* text in force (the text whose hash the structured result records), the
\* goal, the raw backend response and the structured result.
C14_EntryContent ==
  \A n \in DOMAIN ai_logs :
    LET entry == ai_logs[n]
    IN /\ entry.prelude_txt # ""
       /\ entry.plan_json.spec_hash = compute_hash(entry.prelude_txt)
       /\ entry.prompt_json.goal = entry.plan_json.goal
       /\ entry.response_txt \in Responses
       /\ entry.prompt_json.operation \in {"plan", "apply"}

\* the number of times the backend's complete() was called
CompleteCalls(trace) == Cardinality({k \in 1..Len(trace) : trace[k] = "complete"})

\* C15: a plan or apply whose backend call fails ends with the backend
\* error, after one call of complete(), with no audit entry, no ChangeSet
\* file, no report written and the persisted state unchanged; no audit entry
\* ever holds a failed call; every plan and apply calls complete() once.
C15_BackendFailure ==
  [][ (Called("plan") \/ Called("apply"))
      => /\ last'.outcome = "backend_error"
              => /\ UNCHANGED <<ai_logs, files, state_file, reports>>
                 /\ last'.log_dirs = <<>>
                 /\ last'.trace = <<"generate", "complete">>
         /\ \A n \in DOMAIN ai_logs' : ai_logs'[n].response_txt # BackendFailure
         /\ CompleteCalls(last'.trace) = 1 ]_vars

\* an apply failing in the backend after an earlier apply went through
C15_Witness ==
  /\ last.op = "apply" /\ last.outcome = "backend_error"
  /\ state_file # <<>> /\ state_file = last.prior_state
  /\ DOMAIN ai_logs # {} /\ DOMAIN files # {}

\* C16: where the specification lacks a required part, constructing with an
\* unknown backend creates nothing, every plan and apply fails with a
\* configuration error, and no state directory, state record, audit entry
\* or report is ever left behind.
C16_NoPartialState ==
  /\ [][ (last'.op = "init" /\ last'.outcome = "config_error")
         => UNCHANGED <<dirs, state_file, ai_logs, reports, files>> ]_vars
  /\ [](last.op \in {"plan", "apply"} => last.outcome = "config_error")
  /\ [](dirs = {} /\ state_file = <<>> /\ DOMAIN ai_logs = {} /\ reports = <<>>)

\* the declared deliverables of every module, as paths
RECURSIVE Declared(_)
Declared(modules) ==
  IF modules = <<>> THEN {}
  ELSE PathStrs(Get(Head(modules), "deliverables", <<>>)) \cup Declared(Tail(modules))

\* the violations of a list a rule produced, and the paths they name
ByRule(violations, rule_id) ==
  {k \in 1..Len(violations) : violations[k].rule_id = rule_id}

PathsOf(violations, ks) == {violations[k].path : k \in ks}

\* C17: check on a valid specification and an existing, empty target
\* directory returns one deliverable-existence violation per declared
\* deliverable and the instructor-separation violations for instructor/ and
\* reference/, and no other violation; once every declared deliverable,
\* instructor/ and reference/ exist under the target, and nothing else,
\* check returns the empty list
C17_CheckScenario ==
  [][ Called("check")
      => LET violations == last'.violations
             declared == Declared(get_modules(loader_specs'[1]))
             deliv == ByRule(violations, "deliverable-existence")
             instr == ByRule(violations, "instructor-separation")
         IN /\ target.paths = {}
               => /\ Cardinality(deliv) = Cardinality(declared)
                  /\ PathsOf(violations, deliv) = declared
                  /\ Cardinality(instr) = 2
                  /\ PathsOf(violations, instr) = {"instructor/", "reference/"}
                  /\ deliv \cup instr = 1..Len(violations)
            /\ declared \cup {"instructor", "reference"} \subseteq target.paths
               => violations = <<>> ]_vars
\* the result explain returns when nothing references the path
NotReferenced(path) ==
  "File '" \o PathStr(path) \o "' is not directly referenced in specifications."

\* C18: explain never fails and writes nothing, and it returns the neutral
\* "not referenced" result exactly when no module declares the path as a
\* deliverable and the path has no instructor, reference or labs component;
\* a path that only shares its file name with a deliverable is not
\* referenced
C18_ExplainOwner ==
  [][ Called("explain")
      => LET path == last'.goal
             declared == Declared(get_modules(loader_specs'[1]))
         IN /\ last'.outcome = "ok"
            /\ UNCHANGED <<spec_files, target, state_file, ai_logs, files,
                           reports, dirs>>
            /\ last'.message = NotReferenced(path)
               <=> /\ PathStr(path) \notin declared
                   /\ \A k \in 1..Len(path) :
                        path[k] \notin {"instructor", "reference", "labs"} ]_vars
\* the violations of a list that carry the rule's id, in order
ProducedBy(violations, rule) ==
  SelectSeq(violations, LAMBDA v : v.rule_id = rule)

\* C19: the violations a registered rule produces in a run of the engine
\* are those the rule produces alone on the context the run was given:
\* they depend neither on which other rules are registered, nor on the
\* order of the rules, nor on the runs made before
C19_RuleIndependence ==
  [][ Called("check")
      => \A q \in Range(rules) :
           ProducedBy(last'.violations, q)
           = RuleCheck(q, Context(loader_specs, spec_files, <<target>>)) ]_vars

\* a second run of an engine that lost a rule, on a loader that an earlier
\* run left loaded, returning violations of three rules or more
C19_Witness ==
  /\ last.op = "check" /\ nops = 2
  /\ Len(rules) < Len(DEFAULT_RULES)
  /\ rules[1] = "slide-content-quality"
  /\ loader_specs # <<>> /\ loader_specs[1] # spec_files
  /\ Cardinality({v.rule_id : v \in Range(last.violations)}) >= 3
\* the positions of a step in a trace
Pos(trace, steps) == {k \in 1..Len(trace) : trace[k] \in steps}

\* the write steps of a ChangeSet
WriteSteps(changes) == {"write:" \o changes[k].path : k \in 1..Len(changes)}

RECURSIVE ConcatRules(_, _)
ConcatRules(rs, context) ==
  IF rs = <<>> THEN <<>>
  ELSE RuleCheck(Head(rs), context) \o ConcatRules(Tail(rs), context)

\* C21: the engine of a new orchestrator holds the seven rules in the order
\* module-completeness, deliverable-existence, readme-requirements,
\* instructor-separation, forbidden-patterns, naming-convention,
\* slide-content-quality; a run of the engine calls every registered rule
\* once, in registration order, and returns the concatenation of their
\* violation lists; a rule that raises ends check and apply with that
\* error: no violation list is returned, no report, file or state written
C21_CheckAll ==
  /\ []((last.op = "init" /\ last.outcome = "ok")
        => rules = <<"module-completeness", "deliverable-existence",
                     "readme-requirements", "instructor-separation",
                     "forbidden-patterns", "naming-convention",
                     "slide-content-quality">>)
  /\ [][ (\/ Called("check")
          \/ Called("apply") /\ last'.outcome \in {"ok", "io_error", "rule_error"})
         => LET context == Context(loader_specs, spec_files, <<target>>)
                raising == {k \in 1..Len(rules) : RuleRaises(rules[k], context)}
            IN IF raising = {}
               THEN /\ last'.outcome # "rule_error"
                    /\ last'.ran = rules
                    /\ last'.raw_violations = ConcatRules(rules, context)
               ELSE /\ last'.outcome = "rule_error"
                    /\ \E k \in raising : last'.ran = SubSeq(rules, 1, k)
                    /\ last'.raw_violations = <<>> /\ last'.violations = <<>>
                    /\ UNCHANGED <<reports, files, state_file>> ]_vars

\* a check ended by a rule that raised, after an earlier check had
\* reported, on an engine that has lost a rule
C21_Witness ==
  /\ last.op = "check" /\ last.outcome = "rule_error"
  /\ last.ran # <<>> /\ Len(last.ran) < Len(rules)
  /\ Len(rules) < Len(DEFAULT_RULES)
  /\ reports # <<>>
\* the rules that read the generated output
OutputRules ==
  {"deliverable-existence", "readme-requirements", "instructor-separation",
   "forbidden-patterns", "slide-content-quality"}

\* C22: with no target path, or a target path that does not exist on disk,
\* every rule that needs generated output returns no violations, and a run
\* of the engine returns violations of module-completeness and
\* naming-convention only
C22_NoTargetNoOp ==
  /\ \A target_dir \in {<<>>} \cup (IF target.exists THEN {} ELSE {<<target>>}) :
       \A rule \in OutputRules :
         LET context == Context(loader_specs, spec_files, target_dir)
         IN ~RuleRaises(rule, context) /\ RuleCheck(rule, context) = <<>>
  /\ (last.op = "check" /\ ~target.exists)
     => /\ last.outcome = "ok"
        /\ \A v \in Range(last.violations) :
             v.rule_id \in {"module-completeness", "naming-convention"}

\* a check of a target directory that does not exist, with every rule that
\* needs output registered, returning violations of both specification rules
C22_Witness ==
  /\ last.op = "check" /\ ~target.exists
  /\ OutputRules \subseteq Range(rules)
  /\ {v.rule_id : v \in Range(last.violations)}
       = {"module-completeness", "naming-convention"}
\* the conditions of completeness a module fails
FailedConditions(module) ==
  {c \in {"objective", "deliverables", "duration_minutes"} :
     \/ c \notin DOMAIN module
     \/ c = "objective" /\ module[c] = ""
     \/ c = "deliverables" /\ Len(module[c]) < 1
     \/ c = "duration_minutes" /\ ~(module[c] > 0)}

\* C23: module-completeness returns no violation if and only if every
\* module has a non-empty objective, at least one deliverable and a duration
\* greater than zero; otherwise it returns one error-severity violation per
\* failed condition per module, each referencing the module's identifier
C23_ModuleCompleteness ==
  last.op = "check"
  => LET modules == get_modules(loader_specs[1])
         produced == ProducedBy(last.violations, "module-completeness")
     IN /\ produced = <<>>
           <=> \A k \in 1..Len(modules) : FailedConditions(modules[k]) = {}
        /\ \A k \in 1..Len(produced) : produced[k].severity = "error"
        /\ \A k \in 1..Len(modules) :
             Cardinality({i \in 1..Len(produced) :
                            produced[i].path = "modules.yml#" \o Concat(modules[k].id)})
             = Cardinality(FailedConditions(modules[k]))
        /\ \A i \in 1..Len(produced) :
             \E k \in 1..Len(modules) :
               produced[i].path = "modules.yml#" \o Concat(modules[k].id)

\* a check of two modules, one failing all three conditions and one failing
\* one
C23_Witness ==
  /\ last.op = "check"
  /\ Len(get_modules(loader_specs[1])) = 2
  /\ Len(ProducedBy(last.violations, "module-completeness")) = 4
\* the slides of a file: the line numbers before its first line, of its
\* "---" separators, and after its last line bound them; a slide is
\* [first, last], the numbers of its first and last line
Bounds(lines) ==
  {0, Len(lines) + 1} \cup {k \in 1..Len(lines) : lines[k] = "sep"}

SlidesOf(lines) ==
  {[first |-> a + 1, last |-> b - 1] :
     <<a, b>> \in {p \in Bounds(lines) \X Bounds(lines) :
                    /\ p[1] < p[2]
                    /\ \A c \in Bounds(lines) : ~(p[1] < c /\ c < p[2])}}

\* what a slide measures: its bullets, its content lines (bullets and
\* text, the lines of code included), and its code blocks as
\* [first, last], the numbers of the opening and closing fence
Bullets(lines, slide) ==
  Cardinality({k \in slide.first..slide.last : lines[k] = "bullet"})

ContentLines(lines, slide) ==
  Cardinality({k \in slide.first..slide.last : lines[k] \in {"bullet", "text"}})

Fences(lines, slide) == {k \in slide.first..slide.last : lines[k] = "fence"}

CodeBlocks(lines, slide) ==
  {[first |-> a, last |-> b] :
     <<a, b>> \in {p \in Fences(lines, slide) \X Fences(lines, slide) :
                    /\ p[1] < p[2]
                    /\ \A c \in Fences(lines, slide) : ~(p[1] < c /\ c < p[2])
                    /\ Cardinality({c \in Fences(lines, slide) : c < p[1]}) % 2 = 0}}

\* the line a violation of a slide is reported at: the first slide of a
\* file is reported at line 0
ReportedAt(slide) == IF slide.first = 1 THEN 0 ELSE slide.first

\* C24: for every slide of every slide file, the last slide of a file and
\* a file of one slide included, a code block longer than MAX_CODE_LINES,
\* more than MAX_BULLETS bullets, and more than MAX_TOTAL_LINES content
\* lines each produce an error-severity slide-content-quality violation
\* whose message states the measured value and the threshold; a slide
\* within the three limits produces none
C24_ContentDensity ==
  (last.op = "check" /\ last.outcome = "ok")
  => \A file \in Range(target.slides) :
       \A slide \in SlidesOf(file.lines) :
         LET produced == ProducedBy(last.violations, "slide-content-quality")
             at(line) == file.path \o ":" \o FmtInt(line)
             bullets == Bullets(file.lines, slide)
             content == ContentLines(file.lines, slide)
             long == {b \in CodeBlocks(file.lines, slide) :
                        b.last - b.first - 1 > MAX_CODE_LINES}
             within == bullets <= MAX_BULLETS /\ content <= MAX_TOTAL_LINES
                       /\ long = {}
         IN /\ \A k \in 1..Len(produced) : produced[k].severity = "error"
            /\ bullets > MAX_BULLETS
               => \E k \in 1..Len(produced) :
                    /\ produced[k].path = at(ReportedAt(slide))
                    /\ produced[k].message \in
                         {"Slide has " \o FmtInt(bullets) \o " bullet points (max "
                            \o FmtInt(MAX_BULLETS) \o ")" \o tail :
                          tail \in {"", ". Split content across multiple slides."}}
            /\ content > MAX_TOTAL_LINES
               => \E k \in 1..Len(produced) :
                    /\ produced[k].path = at(ReportedAt(slide))
                    /\ produced[k].message =
                         "Slide has " \o FmtInt(content) \o " content lines (max "
                         \o FmtInt(MAX_TOTAL_LINES) \o "). Split into multiple slides"
                         \o " - Cognitive Load Theory suggests less is better."
            /\ \A b \in long :
                 \E k \in 1..Len(produced) :
                   /\ produced[k].path = at(b.first)
                   /\ produced[k].message =
                        "Code block has " \o FmtInt(b.last - b.first - 1)
                        \o " lines (max " \o FmtInt(MAX_CODE_LINES) \o "). "
                        \o "Split into multiple slides with (1/2), (2/2) notation."
            /\ within
               => \A k \in 1..Len(produced) :
                    produced[k].path \notin
                      {at(line) : line \in {ReportedAt(slide)}
                                            \cup (slide.first..slide.last)}
\* as WarnDir without labs/: the declared deliverable is missing and nothing
\* else is an error
MissingDeliverableDir ==
  [WarnDir EXCEPT !.paths = @ \ {"labs", "labs/setup", "labs/setup/README.md"},
                  !.labs_md = <<>>]

GateTargets == {NoDir, WarnDir, MissingDeliverableDir}

\* a ChangeSet entry for the declared deliverable below out/instructor
StagedDeliverable(action) ==
  [path |-> "out/instructor/labs/setup/README.md", action |-> action,
   description |-> "deliverable"]

\* ChangeSets that create the deliverable, name it without creating it, or
\* leave it alone
GateChangeSets ==
  { <<StagedDeliverable("create")>>,
    <<StagedDeliverable("update")>>,
    <<StagedA("create"), StagedDeliverable("create")>>,
    <<StagedA("create")>> }

GateAllowLists == { <<>>, <<"deliverable-existence">> }

\* apply on each of these ChangeSets
ApplyGate ==
  /\ nops < limit
  /\ \E allow_violations \in GateAllowLists, response \in complete(provider),
        changes \in GateChangeSets :
       \E fail_at \in 0..Len(changes) :
         ApplyOp(RecoveryGoal, allow_violations, changes, response, clock, fail_at)

NextGate ==
  \/ NewInvocation
  \/ ApplyGate

SpecGate == InitFrom(ScenarioSpecs, GateTargets, MaxOps) /\ [][NextGate]_vars

\* the violations the engine reports on out/instructor as it is in a state
\* (no target when the directory does not exist), less the allowed rules
GateViolations(t, allow_violations) ==
  LET target_dir == IF t.exists THEN <<t>> ELSE <<>>
      raw == PolicyEngine_check(rules, loader_specs, spec_files, target_dir).violations
  IN IF allow_violations # <<>> THEN filter_allowed(raw, allow_violations) ELSE raw

\* the ChangeSet creates a declared deliverable that out/instructor lacks
CreatesMissingDeliverable(t, changes) ==
  \E k \in 1..Len(changes) :
    /\ changes[k].action = "create"
    /\ TargetParts(changes[k].path) # <<>>
    /\ PathStr(TargetParts(changes[k].path)) \notin t.paths
    /\ PathStr(TargetParts(changes[k].path))
         \in PathStrs(get_modules(spec_files)[1].deliverables)

\* C27: the gate of apply evaluates out/instructor as it is before the
\* call (no target when it does not exist): the violations it decides on,
\* and the decision to block or to proceed, are those of the specification,
\* the allow-list and the repository before the call, whatever the ChangeSet
\* is; a ChangeSet that creates a missing deliverable is blocked by
\* deliverable-existence all the same, and nothing of it is written
C27_GatePreWrite ==
  [][ (Called("apply") /\ last'.outcome \in {"ok", "io_error"})
      => LET expected == GateViolations(target, last'.allow)
         IN /\ last'.violations = expected
            /\ last'.outcome = "ok" => (last'.success <=> ~has_errors(expected))
            /\ last'.outcome = "io_error" => ~has_errors(expected)
            /\ has_errors(expected) => files' = files /\ target' = target
            /\ ( /\ target.exists
                 /\ CreatesMissingDeliverable(target, last'.changes)
                 /\ \A k \in 1..Len(last'.allow) :
                      last'.allow[k] # "deliverable-existence" )
               => /\ ~last'.success
                  /\ \E v \in Range(last'.violations) :
                       v.rule_id = "deliverable-existence" /\ v.severity = "error"
                  /\ target' = target ]_vars

\* an apply whose ChangeSet creates the deliverable that out/instructor
\* lacks was blocked by deliverable-existence, and the file is still missing
C27_Witness ==
  /\ last.op = "apply" /\ last.outcome = "ok" /\ ~last.success
  /\ target = MissingDeliverableDir
  /\ CreatesMissingDeliverable(target, last.changes)
  /\ \E v \in Range(last.violations) : v.rule_id = "deliverable-existence"
  /\ "out/instructor/labs/setup/README.md" \notin DOMAIN files

\* C25: when the write of a ChangeSet entry fails during apply, the error
\* reaches the caller and no result is returned, the entries written before
\* it stay written, no later entry is written, and the persisted state is
\* not updated by that call
C25_WriteFailure ==
  [][ (Called("apply") /\ last'.outcome = "io_error")
      => LET changes == last'.changes
             creates == {k \in 1..Len(changes) : changes[k].action = "create"}
             done == {k \in creates :
                        Pos(last'.trace, {"write:" \o changes[k].path}) # {}}
         IN /\ ~last'.success /\ last'.message = ""
            /\ state_file' = state_file
            /\ \E k \in creates : done = {j \in creates : j < k}
            /\ \A j \in done :
                 /\ changes[j].path \in DOMAIN files'
                 /\ files'[changes[j].path] = ContentOf(changes[j])
            /\ \A j \in creates \ done :
                 /\ changes[j].path \in DOMAIN files'
                    => changes[j].path \in DOMAIN files
                 /\ changes[j].path \in DOMAIN files
                    => files'[changes[j].path] = files[changes[j].path]
            /\ DOMAIN files' = DOMAIN files \cup {changes[j].path : j \in done} ]_vars

\* the write of the second of two entries failed in an apply that followed
\* a successful one: the first entry is on disk, the second is not, and the
\* state is the earlier call's
C25_Witness ==
  /\ last.op = "apply" /\ last.outcome = "io_error"
  /\ Len(last.changes) = 2
  /\ "labs/a.md" \in DOMAIN files /\ "labs/b.md" \notin DOMAIN files
  /\ Pos(last.trace, {"write:labs/a.md"}) # {}
  /\ Pos(last.trace, {"write:labs/b.md", "state"}) = {}
  /\ state_file # <<>> /\ state_file = last.prior_state
  /\ state_file[1].last_goal # Concat(last.goal)
\* C26: an apply that finds no persisted state never ends in a stability
\* error, whatever the specification is, and when it returns success it has
\* created the state record with the digest hash, the backend identifier
\* and the goal of that call
C26_FirstApply ==
  [][ (Called("apply") /\ state_file = <<>>)
      => /\ last'.outcome # "stability_error"
         /\ last'.success
            => /\ Len(state_file') = 1
               /\ state_file'[1].spec_hash = last'.spec_hash
               /\ state_file'[1].spec_hash
                    = compute_hash(generate(load(loader_specs, spec_files)))
               /\ state_file'[1].provider = get_name(provider)
               /\ state_file'[1].last_goal = Concat(last'.goal) ]_vars

\* a first apply on the specification whose module has no objective, let
\* through by the allow-list, has created the state record
C26_Witness ==
  /\ last.op = "apply" /\ last.success
  /\ last.prior_state = <<>>
  /\ spec_files = SpecNoObjective
  /\ last.allow # <<>>
  /\ state_file # <<>>
  /\ state_file[1].last_goal = Concat(last.goal)
\* C28: after every apply that returns success = true the persisted state
\* is one record (spec_hash, provider, last_goal, updated_at) that replaces
\* the earlier one; its hash is the spec_hash of the returned result and of
\* the plan record the same call wrote to the audit log, its provider is
\* the result's provider and its last goal is the goal of the call
C28_StateAfterApply ==
  [][ (Called("apply") /\ last'.success)
      => LET result == ai_logs'[last'.log_dirs[2]].plan_json
             plan_record == ai_logs'[last'.log_dirs[1]].plan_json
         IN /\ result.success /\ result.goal = Concat(last'.goal)
            /\ Len(state_file') = 1
            /\ DOMAIN state_file'[1]
                 = {"spec_hash", "provider", "last_goal", "updated_at"}
            /\ state_file'[1].spec_hash = result.spec_hash
            /\ state_file'[1].spec_hash = plan_record.spec_hash
            /\ plan_record.goal = Concat(last'.goal)
            /\ state_file'[1].provider = result.provider
            /\ state_file'[1].last_goal = Concat(last'.goal) ]_vars

\* a successful apply replaced the record of an earlier apply for another
\* goal; its plan record and its apply record are two audit entries
C28_Witness ==
  /\ last.op = "apply" /\ last.success
  /\ last.prior_state # <<>>
  /\ last.prior_state[1].last_goal # Concat(last.goal)
  /\ Len(state_file) = 1
  /\ state_file[1].last_goal = Concat(last.goal)
  /\ last.log_dirs[1] # last.log_dirs[2]
  /\ ai_logs[last.log_dirs[1]].prompt_json.operation = "plan"
  /\ ai_logs[last.log_dirs[1]].plan_json.spec_hash = state_file[1].spec_hash
\* C29 as stated: an apply that fails the stability check has called the
\* backend once and leaves exactly one new audit entry, of kind plan,
\* beside the entries there were; it leaves no entry of kind apply and
\* does not regenerate the report.
C29_NewPlanEntry ==
  [][ (Called("apply") /\ last'.outcome = "stability_error")
      => /\ CompleteCalls(last'.trace) = 1
         /\ EntriesKept
         /\ Cardinality(DOMAIN ai_logs') = Cardinality(DOMAIN ai_logs) + 1
         /\ \A n \in DOMAIN ai_logs' \ DOMAIN ai_logs :
              ai_logs'[n].prompt_json.operation = "plan"
         /\ reports' = reports ]_vars

\* C29: an apply that fails the stability check has completed its plan: it
\* has called the backend once and written one plan record, under the name
\* made of its timestamp and goal slug, holding the goal, the hash and the
\* backend's answer.  The record is a new entry when no entry had that
\* name and replaces the entry of that name otherwise; no other entry is
\* altered, no record of kind apply is written and the report is not
\* regenerated.
C29_PlanCompleted ==
  [][ (Called("apply") /\ last'.outcome = "stability_error")
      => /\ last'.trace = <<"generate", "complete", "log:plan", "verify">>
         /\ CompleteCalls(last'.trace) = 1
         /\ Len(last'.log_dirs) = 1
         /\ last'.log_dirs[1] = LogDirName(clock, last'.goal)
         /\ last'.log_dirs[1] \in DOMAIN ai_logs'
         /\ DOMAIN ai_logs' = DOMAIN ai_logs \cup {last'.log_dirs[1]}
         /\ \A n \in DOMAIN ai_logs \ {last'.log_dirs[1]} : ai_logs'[n] = ai_logs[n]
         /\ LET entry == ai_logs'[last'.log_dirs[1]]
            IN /\ entry.prompt_json = [goal |-> Concat(last'.goal), operation |-> "plan"]
               /\ entry.plan_json.spec_hash = last'.spec_hash
               /\ entry.plan_json.response_text = entry.response_txt
               /\ entry.response_txt \in Responses \ {BackendFailure}
               /\ entry.plan_md # <<>>
         /\ last'.log_dirs[1] \notin DOMAIN ai_logs
              => /\ EntriesKept
                 /\ Cardinality(DOMAIN ai_logs') = Cardinality(DOMAIN ai_logs) + 1
         /\ reports' = reports
         /\ files' = files /\ state_file' = state_file ]_vars

\* an apply failed the stability check after an apply at an earlier instant
\* went through: its plan record stands beside the older entry, and the
\* report is the earlier apply's
C29_Witness ==
  /\ last.op = "apply" /\ last.outcome = "stability_error"
  /\ Cardinality(DOMAIN ai_logs) = 2
  /\ ai_logs[last.log_dirs[1]].prompt_json.operation = "plan"
  /\ ai_logs[last.log_dirs[1]].plan_json.spec_hash = last.spec_hash
  /\ \E n \in DOMAIN ai_logs : ai_logs[n].prompt_json.operation = "apply"
  /\ reports # <<>>
  /\ state_file[1].spec_hash # last.spec_hash
====
